---- MODULE Spec2Model ----
(***************************************************************************)
(* ChaosDefense: the status-effect registry, the stat resolution layer    *)
(* and the upgrade-effect interpreter over the shipped configuration      *)
(* documents (tower types, enemy types, status effects, upgrade paths).   *)
(*                                                                         *)
(* Units.  Time is counted in simulation ticks of 0.5 s (the smallest     *)
(* tick_interval of the status-effect catalog).  In the effect engine a   *)
(* potency of a stat_modifier is given in hundredths (0.3 -> 30), the     *)
(* potency of a damage/heal over time effect and of an armor              *)
(* debuff/buff in plain points.  In definition documents every number is  *)
(* an exact rational.                                                      *)
(***************************************************************************)
EXTENDS Integers, Sequences, FiniteSets, TLC

VARIABLES
    targetType,   \* type id of the entity the effects are applied to
    effectInPlay, \* the status effect the tower in range applies on a hit,
                  \* "none" when the tower in range is a Mortar
    alive,        \* FALSE once the target is destroyed
    active,       \* the target's ActiveEffectInstances, in creation order
    clock,        \* simulation time in ticks, modulo TickPeriod
    tickDamage,   \* damage-over-time dealt by the most recent tick
    tickHeal,     \* heal-over-time dealt by the most recent tick
    lastOp,       \* the most recent operation on the target and its outcome
    statBlock,    \* the StatBlock resolveEffectiveStats returned for the
                  \* target since the target last changed, NoStats if none
    resolveCalls, \* calls of resolveEffectiveStats since the target last changed
    gold,         \* the player's gold, as the server holds it
    towers,       \* tower id -> placed tower (type, path tiers, definition)
    view,         \* the client's latest game_tick snapshot (gold, tiers)
    lastReq,      \* the most recent upgrade_tower request the server handled
    lastResult,   \* the server's answer to lastReq
    purchaseLog,  \* tower id -> ids of the upgrades it was sold, in order
    catalog,      \* tower type -> the template loaded from the type catalog
    docType,      \* interpreter runs: the tower type the document came from
    doc,          \* interpreter runs: the definition document
    prevDoc,      \* interpreter runs: the document before the last operation
    appliedOp,    \* interpreter runs: the last EffectOperation applied
    opOk,         \* interpreter runs: FALSE iff the last operation failed
    opCount,      \* interpreter runs: operations applied so far
    persona,      \* targeting: the AI persona of the tower that selects
    candidates,   \* targeting: the enemies in range, in spawn order
    selected,     \* targeting: what selectTarget returned, Unasked before
    queue,        \* tick loop: the commands received and not yet handled
    phase,        \* tick loop: what the loop is doing: "commands", the tick
                  \* steps "fire" and "decay", or "push"
    inFlight,     \* tick loop: the mutations begun and not yet finished
    pushed,       \* tick loop: the latest game_tick payload sent
    store,        \* client: the game store (activeScreen, initialState,
                  \* gameState, entities, isConnected, the two selections)
    websocket,    \* client: webSocketService's socket reference, 0 for null
    sockets,      \* client: readyState of every WebSocket created, in order
    wire,         \* client: the messages transmitted, with their socket
    lastTick,     \* client: the latest game_tick data the client received
    lastCall      \* client: the most recent call or event and its outcome

effectVars == <<targetType, effectInPlay, alive, active, clock, tickDamage, tickHeal, lastOp,
               statBlock, resolveCalls>>

upgradeVars == <<gold, towers, view, lastReq, lastResult, purchaseLog, catalog>>

interpVars == <<docType, doc, prevDoc, appliedOp, opOk, opCount>>

targetVars == <<persona, candidates, selected>>

loopVars == <<queue, phase, inFlight, pushed>>

clientVars == <<store, websocket, sockets, wire, lastTick, lastCall>>

vars == <<effectVars, upgradeVars, interpVars, targetVars, loopVars, clientVars>>

----------------------------------------------------------------------------
(* Bounds of the model. *)

\* live instances a target may hold (stack_intensity creates one per hit)
MaxInstances == 3
\* applications merged into one stack_potency instance
MaxStacks == 3
\* upgrades sold to the tower whose purchases are replayed
MaxPurchases == 5
\* operations applied to one document in an interpreter run
MaxOps == 2
\* upgrades sold to each tower where towers are placed
MaxUpgrades == 2
\* calls of resolveEffectiveStats between two changes of the target
MaxCalls == 2
\* enemies in range of the tower that selects a target
MaxCandidates == 3
\* commands waiting in the queue of the tick loop
MaxQueued == 1
\* mutations the tick loop begins in one run
MaxMutations == 2
\* WebSockets the client creates in one run
MaxSockets == 2
\* messages the client transmits in one run
MaxSent == 2

\* the gold the player may hold when the tower is selected
InitialGold == {400, 20000}
\* gold that pays for every upgrade of two towers
ReplayGold == 30000

\* potencies and durations the generic attack draws from
Potencies == {1, 2}
Durations == {1, 2}
\* potencies of the stat effects where stats are resolved: a multiplier below
\* and one above 1 (hundredths); as armor points the armor_break of curse_a4
\* and more than the armor of every enemy type
StatPotencies == {10, 150}
\* the duration, in ticks, of the stat effects where stats are resolved
StatDurations == {2}

----------------------------------------------------------------------------
(* Arithmetic helpers. *)

Max(a, b) == IF a >= b THEN a ELSE b

Min(a, b) == IF a <= b THEN a ELSE b

RECURSIVE SumSeq(_)
SumSeq(s) == IF s = <<>> THEN 0 ELSE Head(s) + SumSeq(Tail(s))

RECURSIVE Gcd(_, _)
Gcd(a, b) == IF b = 0 THEN a ELSE Gcd(b, a % b)

Abs(a) == IF a < 0 THEN -a ELSE a

\* exact rationals n/d in lowest terms with d > 0
Rat(n, d) ==
    LET g == Gcd(Abs(n), Abs(d))
        sgn == IF d < 0 THEN -1 ELSE 1
    IN  [n |-> sgn * (n \div g), d |-> sgn * (d \div g)]

RatAdd(x, y) == Rat(x.n * y.d + y.n * x.d, x.d * y.d)

RatMul(x, y) == Rat(x.n * y.n, x.d * y.d)

RatIsZero(x) == x.n = 0

RatNonNeg(x) == x.n >= 0

----------------------------------------------------------------------------
(* The status-effect catalog. *)

\* a mutant of EffectIds: the catalog without its vulnerability entry
EffectIdsWithoutVulnerability ==
    {"slow", "stun", "poison", "fire", "bleed", "armor_break",
     "elemental_vulnerability", "damage_boost", "range_boost", "fire_rate_boost",
     "effect_potency_boost", "aura_size_boost", "regeneration", "armor_boost"}

\* the keys of the status-effect catalog
EffectIds ==
    {"slow", "stun", "poison", "fire", "bleed", "armor_break", "vulnerability",
     "elemental_vulnerability", "damage_boost", "range_boost", "fire_rate_boost",
     "effect_potency_boost", "aura_size_boost", "regeneration", "armor_boost"}

\* a mutant of Stacking: every effect is treated as stack_intensity
StackingAllIntensity(e) == "stack_intensity"

\* a mutant of Stacking: every effect is treated as refresh
StackingAllRefresh(e) == "refresh"

\* "stacking" of each catalog entry
Stacking(e) ==
    CASE e \in {"poison", "bleed", "regeneration"} -> "stack_intensity"
      [] e \in {"armor_break", "armor_boost"} -> "stack_potency"
      [] OTHER -> "refresh"

\* "type" of each catalog entry
EffectType(e) ==
    CASE e \in {"poison", "fire", "bleed"} -> "damage_over_time"
      [] e = "regeneration" -> "heal_over_time"
      [] e = "armor_break" -> "stat_debuff"
      [] e = "armor_boost" -> "stat_buff"
      [] OTHER -> "stat_modifier"

\* params.tick_interval in ticks of 0.5 s (0.5 -> 1, 1.0 -> 2)
TickInterval(e) ==
    CASE e \in {"poison", "fire"} -> 1
      [] e \in {"bleed", "regeneration"} -> 2
      [] OTHER -> 0

\* the simulation clock wraps at the least common multiple of the intervals
TickPeriod == 2

\* params.stat: the stat a stat_modifier / stat_debuff / stat_buff acts on
EffectStat(e) ==
    CASE e \in {"slow", "stun"} -> "speed"
      [] e \in {"armor_break", "armor_boost"} -> "armor"
      [] e \in {"vulnerability", "elemental_vulnerability"} -> "damage_taken_multiplier"
      [] e = "damage_boost" -> "damage"
      [] e = "range_boost" -> "range"
      [] e = "fire_rate_boost" -> "fire_rate"
      [] e = "effect_potency_boost" -> "effect_potency_multiplier"
      [] e = "aura_size_boost" -> "aura_size_multiplier"
      [] OTHER -> "none"

----------------------------------------------------------------------------
(* Enemy and boss types. *)

TargetTypes == {"grunt", "guardian", "hyperion_vanguard"}

\* a mutant of Immunities: base_stats.immunities is not read
ImmunitiesIgnored(t) == {}

\* a mutant of Immunities: an immune entity rejects every effect
ImmunitiesEverything(t) == IF t = "grunt" THEN {} ELSE EffectIds

\* base_stats.immunities (absent: no immunity)
Immunities(t) ==
    CASE t = "guardian" -> {"slow", "stun"}
      [] t = "hyperion_vanguard" -> {"slow", "stun"}
      [] OTHER -> {}

\* base_stats of the enemy types, the stats the resolution layer reports
BaseStats(t) ==
    CASE t = "grunt" -> [speed |-> 60, armor |-> 2]
      [] t = "guardian" -> [speed |-> 60, armor |-> 30]
      [] t = "hyperion_vanguard" -> [speed |-> 50, armor |-> 35]

----------------------------------------------------------------------------
(* Status Effect Registry: the combination rule of an application.        *)

NewInstance(e, p, d) ==
    [effect_id |-> e, potency |-> p, remaining_duration |-> d, stacks |-> 1]

HasInstance(list, e) == \E i \in DOMAIN list : list[i].effect_id = e

InstancesOf(list, e) == SelectSeq(list, LAMBDA x : x.effect_id = e)

\* what an application of e does before any combination: the immunity check
\* comes first and drops the application silently
ApplyOutcome(imm, e) ==
    IF e \in imm THEN "immune_noop"
    ELSE IF e \notin EffectIds THEN "UnknownEffectError"
    ELSE "applied"

\* apply effect e with potency p and duration d to a target holding the
\* instances list and declaring the immunities imm
ApplyToTarget(list, imm, e, p, d) ==
    IF ApplyOutcome(imm, e) # "applied" THEN list
    ELSE IF Stacking(e) = "stack_intensity" \/ ~HasInstance(list, e)
    THEN Append(list, NewInstance(e, p, d))
    ELSE IF Stacking(e) = "refresh"
    THEN [i \in DOMAIN list |->
            IF list[i].effect_id = e
            THEN [list[i] EXCEPT !.potency = p, !.remaining_duration = d]
            ELSE list[i]]
    ELSE [i \in DOMAIN list |->
            IF list[i].effect_id = e
            THEN [list[i] EXCEPT !.potency = @ + p,
                                 !.remaining_duration = Max(@, d),
                                 !.stacks = @ + 1]
            ELSE list[i]]

\* the effects of one attack, applied in list order
RECURSIVE ApplyAll(_, _, _)
ApplyAll(list, imm, effects) ==
    IF effects = <<>> THEN list
    ELSE ApplyAll(ApplyToTarget(list, imm, Head(effects).id, Head(effects).potency,
                                Head(effects).duration),
                  imm, Tail(effects))

----------------------------------------------------------------------------
(* Stat Resolution Layer. *)

\* params.multiplier: the fixed multiplier of an effect, when it has one
HasFixedMultiplier(e) == e = "stun"

FixedMultiplier(e) == 0

\* the multiplier one stat_modifier instance contributes (hundredths)
MultiplierOf(inst) ==
    IF HasFixedMultiplier(inst.effect_id) THEN Rat(FixedMultiplier(inst.effect_id), 1)
    ELSE Rat(inst.potency, 100)

\* the signed amount one stat_debuff / stat_buff instance contributes
AdditiveOf(inst) ==
    IF EffectType(inst.effect_id) = "stat_debuff" THEN 0 - inst.potency ELSE inst.potency

RECURSIVE SumAdditive(_, _)
SumAdditive(list, stat) ==
    IF list = <<>> THEN 0
    ELSE (IF EffectType(Head(list).effect_id) \in {"stat_debuff", "stat_buff"}
             /\ EffectStat(Head(list).effect_id) = stat
          THEN AdditiveOf(Head(list)) ELSE 0)
         + SumAdditive(Tail(list), stat)

\* a mutant of ProductMultipliers: the bonuses of several multipliers on a
\* stat are added (x1.5 and x0.5 give x1.0)
RECURSIVE ProductMultipliersAdded(_, _)
ProductMultipliersAdded(list, stat) ==
    IF list = <<>> THEN Rat(1, 1)
    ELSE RatAdd(IF EffectType(Head(list).effect_id) = "stat_modifier"
                   /\ EffectStat(Head(list).effect_id) = stat
                THEN RatAdd(MultiplierOf(Head(list)), Rat(-1, 1)) ELSE Rat(0, 1),
                ProductMultipliersAdded(Tail(list), stat))

RECURSIVE ProductMultipliers(_, _)
ProductMultipliers(list, stat) ==
    IF list = <<>> THEN Rat(1, 1)
    ELSE RatMul(IF EffectType(Head(list).effect_id) = "stat_modifier"
                   /\ EffectStat(Head(list).effect_id) = stat
                THEN MultiplierOf(Head(list)) ELSE Rat(1, 1),
                ProductMultipliers(Tail(list), stat))

\* a mutant of ClampNonNeg: the resolved value is returned as computed
ClampNothing(x) == x

ClampNonNeg(x) == IF RatNonNeg(x) THEN x ELSE Rat(0, 1)

\* base value, plus the additive contributions, times the multipliers
ResolveStat(base, list, stat) ==
    RatMul(Rat(base + SumAdditive(list, stat), 1), ProductMultipliers(list, stat))

\* resolveEffectiveStats of an enemy: speed and armor are clamped to >= 0
ResolveEffectiveStats(t, list) ==
    [speed |-> ClampNonNeg(ResolveStat(BaseStats(t).speed, list, "speed")),
     armor |-> ClampNonNeg(ResolveStat(BaseStats(t).armor, list, "armor")),
     damage_taken_multiplier |-> ResolveStat(1, list, "damage_taken_multiplier")]

----------------------------------------------------------------------------
(* The simulation tick. *)

Fires(e, now) == TickInterval(e) > 0 /\ now % TickInterval(e) = 0

RECURSIVE OverTime(_, _, _)
\* the summed potency of the instances of the given type that fire at now
OverTime(list, type, now) ==
    IF list = <<>> THEN 0
    ELSE (IF EffectType(Head(list).effect_id) = type /\ Fires(Head(list).effect_id, now)
          THEN Head(list).potency ELSE 0)
         + OverTime(Tail(list), type, now)

\* a mutant of Decay: instances age but are never removed
DecayWithoutExpiry(list) ==
    [i \in DOMAIN list |-> [list[i] EXCEPT !.remaining_duration = @ - 1]]

\* every instance decays by one tick; an instance that reaches zero is removed
Decay(list) ==
    LET aged == [i \in DOMAIN list |->
                    [list[i] EXCEPT !.remaining_duration = @ - 1]]
    IN  SelectSeq(aged, LAMBDA x : x.remaining_duration > 0)

----------------------------------------------------------------------------
(* Attacks on the target. *)

\* attack.data.on_blast_effects of a Mortar that bought mortar_a3: the base
\* slow (0.3 for 1.5 s) and the Shrapnel Shells bleed (25 for 5 s)
MortarBlastEffects ==
    << [id |-> "slow", potency |-> 30, duration |-> 3],
       [id |-> "bleed", potency |-> 25, duration |-> 10] >>

\* lastOp: the operation, its inputs, its outcome, and whether the target
\* held an instance of the applied effect when it was applied
OpRecord(kind, e, p, d, outcome, existed) ==
    [kind |-> kind, effect_id |-> e, potency |-> p, duration |-> d,
     outcome |-> outcome, existed |-> existed]

NoOp == OpRecord("none", "none", 0, 0, "none", FALSE)

\* no StatBlock was returned since the target last changed
NoStats == [none |-> TRUE]

\* the bounds on live instances and merged applications
WithinBounds(list) ==
    /\ Len(list) <= MaxInstances
    /\ \A i \in DOMAIN list : list[i].stacks <= MaxStacks

\* a tower hits the target and applies the effect in play
ApplyEffect(p, d) ==
    LET imm == Immunities(targetType)
        next == ApplyToTarget(active, imm, effectInPlay, p, d)
    IN  /\ alive
        /\ effectInPlay # "none"
        /\ WithinBounds(next)
        /\ active' = next
        /\ lastOp' = OpRecord("apply", effectInPlay, p, d,
                              ApplyOutcome(imm, effectInPlay),
                              HasInstance(active, effectInPlay))
        /\ UNCHANGED <<targetType, effectInPlay, alive, clock, tickDamage, tickHeal>>
        /\ statBlock' = NoStats
        /\ resolveCalls' = 0
        /\ UNCHANGED <<upgradeVars, interpVars, targetVars, loopVars, clientVars>>

\* a Mortar shell explodes on the target: every blast effect is applied
MortarBlast ==
    LET imm == Immunities(targetType)
        next == ApplyAll(active, imm, MortarBlastEffects)
    IN  /\ alive
        /\ effectInPlay = "none"
        /\ WithinBounds(next)
        /\ active' = next
        /\ lastOp' = OpRecord("blast", "none", 0, 0, "applied", FALSE)
        /\ UNCHANGED <<targetType, effectInPlay, alive, clock, tickDamage, tickHeal>>
        /\ statBlock' = NoStats
        /\ resolveCalls' = 0
        /\ UNCHANGED <<upgradeVars, interpVars, targetVars, loopVars, clientVars>>

\* one simulation tick: over-time effects fire, then durations decay
Tick ==
    LET now == (clock + 1) % TickPeriod
    IN  /\ alive
        /\ clock' = now
        /\ tickDamage' = OverTime(active, "damage_over_time", now)
        /\ tickHeal' = OverTime(active, "heal_over_time", now)
        /\ active' = Decay(active)
        /\ lastOp' = OpRecord("tick", "none", 0, 0, "ticked", FALSE)
        /\ UNCHANGED <<targetType, effectInPlay, alive>>
        /\ statBlock' = NoStats
        /\ resolveCalls' = 0
        /\ UNCHANGED <<upgradeVars, interpVars, targetVars, loopVars, clientVars>>

\* the target is destroyed: its instances go with it
DestroyTarget ==
    /\ alive
    /\ alive' = FALSE
    /\ active' = <<>>
    /\ lastOp' = OpRecord("destroy", "none", 0, 0, "destroyed", FALSE)
    /\ statBlock' = NoStats
    /\ resolveCalls' = 0
    /\ UNCHANGED <<targetType, effectInPlay, clock, tickDamage, tickHeal>>
    /\ UNCHANGED <<upgradeVars, interpVars, targetVars, loopVars, clientVars>>

----------------------------------------------------------------------------
(* Definition documents.                                                   *)
(*                                                                         *)
(* A document is the flat form of a JSON value: a function from the path   *)
(* of each leaf (the keys from the root, array indices as decimal digits)  *)
(* to the leaf.  A number is held as an exact rational, a string as        *)
(* itself; a scalar value is the document whose only path is <<>>.         *)

\* a numeric leaf: the rational n/d in lowest terms
N(n, d) == [t |-> "num", n |-> n, d |-> d, s |-> ""]

\* the rational x as a numeric leaf
NumLeaf(x) == N(x.n, x.d)

\* a string leaf
S(s) == [t |-> "str", n |-> 0, d |-> 1, s |-> s]

\* the document with the given <<path, leaf>> pairs
DocOf(pairs) ==
    [p \in {x[1] : x \in pairs} |-> (CHOOSE x \in pairs : x[1] = p)[2]]

EmptyDoc == DocOf({})

IsPrefix(p, q) == Len(p) <= Len(q) /\ SubSeq(q, 1, Len(p)) = p

\* the node at path exists, as a leaf or as a mapping/list with content
HasNode(d, path) == \E q \in DOMAIN d : IsPrefix(path, q)

\* the node at path is a numeric field
IsNumber(d, path) == path \in DOMAIN d /\ d[path].t = "num"

\* the document without the node at path
Prune(d, path) == [q \in {r \in DOMAIN d : ~IsPrefix(path, r)} |-> d[q]]

\* the document with the node at path replaced by the value frag
Graft(d, path, frag) ==
    LET kept == Prune(d, path)
    IN  [q \in DOMAIN kept \cup {path \o r : r \in DOMAIN frag} |->
            IF q \in DOMAIN kept
            THEN kept[q]
            ELSE frag[SubSeq(q, Len(path) + 1, Len(q))]]

\* the keys (or indices) directly below the node at path
ChildKeys(d, path) ==
    {q[Len(path) + 1] : q \in {r \in DOMAIN d : IsPrefix(path, r) /\ Len(r) > Len(path)}}

\* the length of the list at path (0 when the list is absent)
ArrayLen(d, path) == Cardinality(ChildKeys(d, path))

\* the value below the node at path, as a document of its own
SubDoc(d, path) ==
    [r \in {SubSeq(q, Len(path) + 1, Len(q)) : q \in {x \in DOMAIN d : IsPrefix(path, x)}} |->
        d[path \o r]]

----------------------------------------------------------------------------
(* The Upgrade Effect Interpreter.                                         *)

\* an EffectOperation: its kind, the key of modify_attack_data, the path of
\* modify_nested as the tokens of the path string, the operation of the
\* two generic kinds, and the value (or amount) as a document
Op(type, key, path, operation, value) ==
    [type |-> type, key |-> key, path |-> path, operation |-> operation,
     value |-> value]

\* a modify_nested path string resolved to the path of the addressed node:
\* dotted keys and zero-based bracket indices
RECURSIVE ParsePath(_)
ParsePath(tokens) ==
    IF tokens = <<>> THEN <<>>
    ELSE IF Head(tokens) = "." THEN ParsePath(Tail(tokens))
    ELSE IF Head(tokens) = "[" THEN <<tokens[2]>> \o ParsePath(SubSeq(tokens, 4, Len(tokens)))
    ELSE <<Head(tokens)>> \o ParsePath(Tail(tokens))

\* the result of applying an operation: the document, or a failure that
\* leaves the document as it was
Applied(d) == [ok |-> TRUE, doc |-> d]

MissingPathError(d) == [ok |-> FALSE, doc |-> d]

AttackData == <<"attack", "data">>

\* the scalar an operation carries
Amount(value) == value[<<>>]

LeafAdd(x, y) == NumLeaf(RatAdd(Rat(x.n, x.d), Rat(y.n, y.d)))

LeafMul(x, y) == NumLeaf(RatMul(Rat(x.n, x.d), Rat(y.n, y.d)))

\* add / multiply / set against the field at path: add and multiply need the
\* field to pre-exist, set creates it
ModifyField(d, path, operation, value) ==
    IF operation = "set" THEN Applied(Graft(d, path, value))
    ELSE IF ~IsNumber(d, path) THEN MissingPathError(d)
    ELSE IF operation = "add"
         THEN Applied([d EXCEPT ![path] = LeafAdd(@, Amount(value))])
         ELSE Applied([d EXCEPT ![path] = LeafMul(@, Amount(value))])

\* entries {id: {potency, duration, chance?}} inserted into the mapping at path
MergeEntries(d, path, entries) ==
    LET ids == {q[1] : q \in DOMAIN entries}
        kept == [q \in {r \in DOMAIN d : \A id \in ids : ~IsPrefix(path \o <<id>>, r)} |-> d[q]]
    IN  [q \in DOMAIN kept \cup {path \o r : r \in DOMAIN entries} |->
            IF q \in DOMAIN kept
            THEN kept[q]
            ELSE entries[SubSeq(q, Len(path) + 1, Len(q))]]

\* an item appended to the list at path
AppendItem(d, path, item) ==
    Graft(d, path \o <<ToString(ArrayLen(d, path))>>, item)

ApplyOperation(d, op) ==
    CASE op.type = "add_damage" ->
            ModifyField(d, AttackData \o <<"damage">>, "add", op.value)
      [] op.type = "add_range" ->
            ModifyField(d, AttackData \o <<"range">>, "add", op.value)
      [] op.type = "multiply_fire_rate" ->
            ModifyField(d, AttackData \o <<"fire_rate">>, "multiply", op.value)
      [] op.type = "set_pierce" ->
            ModifyField(d, AttackData \o <<"pierce">>, "set", op.value)
      [] op.type = "multiply_blast_radius" ->
            LET p == AttackData \o <<"blast_radius">>
            IN  IF ~IsNumber(d, p) \/ d[p].n = 0
                THEN ModifyField(d, p, "set", op.value)
                ELSE ModifyField(d, p, "multiply", op.value)
      [] op.type = "add_effect" ->
            Applied(Graft(d, AttackData \o <<"effects", op.value[<<"id">>].s>>,
                          Prune(op.value, <<"id">>)))
      [] op.type = "add_blast_effect" ->
            Applied(AppendItem(d, AttackData \o <<"on_blast_effects">>, op.value))
      [] op.type = "add_on_death_explosion" ->
            Applied(Graft(d, AttackData \o <<"on_death_explosion">>, op.value))
      [] op.type = "add_bonus_damage_per_debuff" ->
            Applied(Graft(d, AttackData \o <<"bonus_damage_per_debuff">>, op.value))
      [] op.type = "modify_attack_data" ->
            ModifyField(d, AttackData \o <<op.key>>, op.operation, op.value)
      [] op.type = "modify_nested" ->
            LET p == ParsePath(op.path)
            IN  CASE op.operation = "add_effect" -> Applied(MergeEntries(d, p, op.value))
                  [] op.operation = "add_aura" -> Applied(AppendItem(d, p, op.value))
                  [] OTHER -> ModifyField(d, p, op.operation, op.value)

\* an upgrade's effect list applied in order; the first failure aborts
RECURSIVE ApplyEffects(_, _)
ApplyEffects(d, effects) ==
    IF effects = <<>> THEN Applied(d)
    ELSE LET r == ApplyOperation(d, Head(effects))
         IN  IF r.ok THEN ApplyEffects(r.doc, Tail(effects)) ELSE MissingPathError(d)

----------------------------------------------------------------------------
(* The shipped configuration: tower types and their upgrade paths.         *)

UpgradableTowers ==
    {"mortar", "inferno_weaver", "stormcaller", "curse_weaver", "commander", "archmage"}

\* a mutant of TowerTemplate: an Arch-Mage whose first aura has range 120
TowerTemplateWideAura(type) ==
    DocOf({<<<<"auras", "0", "range">>, N(120, 1)>>,
           <<<<"auras", "0", "target_type">>, S("TOWER")>>,
           <<<<"auras", "0", "effects", "effect_potency_boost", "potency">>, N(13, 10)>>,
           <<<<"auras", "0", "effects", "effect_potency_boost", "duration">>, N(1, 2)>>})

\* a mutant of TowerTemplate: every tower type ships with an attack block
TowerTemplateArmed(type) ==
    DocOf({<<<<"attack", "type">>, S("standard_projectile")>>,
           <<<<"attack", "data", "damage">>, N(10, 1)>>,
           <<<<"auras", "0", "range">>, N(100, 1)>>,
           <<<<"auras", "0", "target_type">>, S("TOWER")>>})

\* a mutant of TowerTemplate: a Curse Weaver that ships with a blast radius
TowerTemplateBlasting(type) ==
    DocOf({<<<<"attack", "type">>, S("standard_projectile")>>,
           <<<<"attack", "data", "damage">>, N(5, 1)>>,
           <<<<"attack", "data", "range">>, N(220, 1)>>,
           <<<<"attack", "data", "fire_rate">>, N(2, 1)>>,
           <<<<"attack", "data", "blast_radius">>, N(40, 1)>>,
           <<<<"attack", "data", "effects", "elemental_vulnerability", "potency">>, N(3, 2)>>,
           <<<<"attack", "data", "effects", "elemental_vulnerability", "duration">>, N(5, 1)>>})

\* the sections of each tower type an upgrade can address
TowerTemplate(type) ==
    CASE type = "mortar" ->
        DocOf({<<<<"special_properties", "minimum_range">>, N(100, 1)>>,
               <<<<"attack", "type">>, S("standard_projectile")>>,
               <<<<"attack", "data", "damage">>, N(20, 1)>>,
               <<<<"attack", "data", "range">>, N(500, 1)>>,
               <<<<"attack", "data", "fire_rate">>, N(1, 4)>>,
               <<<<"attack", "data", "blast_radius">>, N(60, 1)>>,
               <<<<"attack", "data", "on_blast_effects", "0", "id">>, S("slow")>>,
               <<<<"attack", "data", "on_blast_effects", "0", "potency">>, N(3, 10)>>,
               <<<<"attack", "data", "on_blast_effects", "0", "duration">>, N(3, 2)>>})
      [] type = "inferno_weaver" ->
        DocOf({<<<<"attack", "type">>, S("persistent_ground_aura")>>,
               <<<<"attack", "data", "range">>, N(80, 1)>>,
               <<<<"attack", "data", "fire_rate">>, N(6, 5)>>,
               <<<<"attack", "data", "radius">>, N(60, 1)>>,
               <<<<"attack", "data", "duration">>, N(1, 1)>>,
               <<<<"attack", "data", "dps">>, N(20, 1)>>,
               <<<<"attack", "data", "tick_rate">>, N(15, 1)>>,
               <<<<"attack", "data", "bonus_damage_vs_armor_multiplier">>, N(-3, 10)>>,
               <<<<"attack", "data", "effects", "fire", "potency">>, N(15, 1)>>,
               <<<<"attack", "data", "effects", "fire", "duration">>, N(2, 1)>>})
      [] type = "stormcaller" ->
        DocOf({<<<<"attack", "type">>, S("persistent_attached_aura")>>,
               <<<<"attack", "data", "range">>, N(180, 1)>>,
               <<<<"attack", "data", "fire_rate">>, N(3, 20)>>,
               <<<<"attack", "data", "radius">>, N(90, 1)>>,
               <<<<"attack", "data", "duration">>, N(3, 1)>>,
               <<<<"attack", "data", "dps">>, N(20, 1)>>,
               <<<<"attack", "data", "tick_rate">>, N(3, 2)>>,
               <<<<"attack", "data", "bonus_damage_vs_armor_multiplier">>, N(3, 10)>>,
               <<<<"attack", "data", "effects", "slow", "potency">>, N(1, 5)>>,
               <<<<"attack", "data", "effects", "slow", "duration">>, N(3, 2)>>})
      [] type = "curse_weaver" ->
        DocOf({<<<<"attack", "type">>, S("standard_projectile")>>,
               <<<<"attack", "data", "damage">>, N(5, 1)>>,
               <<<<"attack", "data", "range">>, N(220, 1)>>,
               <<<<"attack", "data", "fire_rate">>, N(2, 1)>>,
               <<<<"attack", "data", "effects", "elemental_vulnerability", "potency">>, N(3, 2)>>,
               <<<<"attack", "data", "effects", "elemental_vulnerability", "duration">>, N(5, 1)>>})
      [] type = "commander" ->
        DocOf({<<<<"auras", "0", "range">>, N(120, 1)>>,
               <<<<"auras", "0", "target_type">>, S("TOWER")>>,
               <<<<"auras", "0", "effects", "damage_boost", "potency">>, N(11, 10)>>,
               <<<<"auras", "0", "effects", "damage_boost", "duration">>, N(1, 2)>>})
      [] type = "archmage" ->
        DocOf({<<<<"auras", "0", "range">>, N(100, 1)>>,
               <<<<"auras", "0", "target_type">>, S("TOWER")>>,
               <<<<"auras", "0", "effects", "effect_potency_boost", "potency">>, N(13, 10)>>,
               <<<<"auras", "0", "effects", "effect_potency_boost", "duration">>, N(1, 2)>>,
               <<<<"auras", "0", "effects", "aura_size_boost", "potency">>, N(6, 5)>>,
               <<<<"auras", "0", "effects", "aura_size_boost", "duration">>, N(1, 2)>>})

\* configs/upgrades/artillery/mortar.json
MortarUpgrades ==
    [a |-> <<
        [id |-> "mortar_a1", cost |-> 110, effects |-> <<
            Op("add_damage", "", <<>>, "",
               DocOf({<<<<>>, N(15, 1)>>})) >>],
        [id |-> "mortar_a2", cost |-> 150, effects |-> <<
            Op("add_range", "", <<>>, "",
               DocOf({<<<<>>, N(50, 1)>>})) >>],
        [id |-> "mortar_a3", cost |-> 220, effects |-> <<
            Op("add_blast_effect", "", <<>>, "",
               DocOf({<<<<"id">>, S("bleed")>>,
                      <<<<"potency">>, N(25, 1)>>,
                      <<<<"duration">>, N(5, 1)>>})) >>],
        [id |-> "mortar_a4", cost |-> 300, effects |-> <<
            Op("add_damage", "", <<>>, "",
               DocOf({<<<<>>, N(50, 1)>>})) >>],
        [id |-> "mortar_a5", cost |-> 450, effects |-> <<
            Op("add_blast_effect", "", <<>>, "",
               DocOf({<<<<"id">>, S("fire")>>,
                      <<<<"potency">>, N(20, 1)>>,
                      <<<<"duration">>, N(4, 1)>>})) >>] >>,
     b |-> <<
        [id |-> "mortar_b1", cost |-> 120, effects |-> <<
            Op("multiply_fire_rate", "", <<>>, "",
               DocOf({<<<<>>, N(11, 10)>>})) >>],
        [id |-> "mortar_b2", cost |-> 180, effects |-> <<
            Op("add_blast_effect", "", <<>>, "",
               DocOf({<<<<"id">>, S("stun")>>,
                      <<<<"potency">>, N(0, 1)>>,
                      <<<<"duration">>, N(3, 4)>>})) >>],
        [id |-> "mortar_b3", cost |-> 240, effects |-> <<
            Op("multiply_fire_rate", "", <<>>, "",
               DocOf({<<<<>>, N(23, 20)>>})) >>],
        [id |-> "mortar_b4", cost |-> 320, effects |-> <<
            Op("add_blast_effect", "", <<>>, "",
               DocOf({<<<<"id">>, S("vulnerability")>>,
                      <<<<"potency">>, N(6, 5)>>,
                      <<<<"duration">>, N(4, 1)>>})) >>],
        [id |-> "mortar_b5", cost |-> 480, effects |-> <<
            Op("multiply_fire_rate", "", <<>>, "",
               DocOf({<<<<>>, N(5, 4)>>})) >>] >>]

\* configs/upgrades/magic/inferno_weaver.json
InfernoWeaverUpgrades ==
    [a |-> <<
        [id |-> "inferno_a1", cost |-> 120, effects |-> <<
            Op("modify_attack_data", "duration", <<>>, "add",
               DocOf({<<<<>>, N(3, 2)>>})) >>],
        [id |-> "inferno_a2", cost |-> 180, effects |-> <<
            Op("modify_attack_data", "radius", <<>>, "multiply",
               DocOf({<<<<>>, N(5, 4)>>})) >>],
        [id |-> "inferno_a3", cost |-> 250, effects |-> <<
            Op("modify_attack_data", "dps", <<>>, "add",
               DocOf({<<<<>>, N(15, 1)>>})) >>],
        [id |-> "inferno_a4", cost |-> 320, effects |-> <<
            Op("modify_attack_data", "initial_burst_damage", <<>>, "set",
               DocOf({<<<<>>, N(100, 1)>>})) >>],
        [id |-> "inferno_a5", cost |-> 600, effects |-> <<
            Op("modify_attack_data", "dps", <<>>, "add",
               DocOf({<<<<>>, N(25, 1)>>})),
            Op("modify_nested", "", <<"attack", ".", "data", ".", "effects">>, "add_effect",
               DocOf({<<<<"vulnerability", "potency">>, N(6, 5)>>,
                      <<<<"vulnerability", "duration">>, N(1, 1)>>})) >>] >>,
     b |-> <<
        [id |-> "inferno_b1", cost |-> 100, effects |-> <<
            Op("modify_attack_data", "fire_rate", <<>>, "multiply",
               DocOf({<<<<>>, N(13, 10)>>})) >>],
        [id |-> "inferno_b2", cost |-> 160, effects |-> <<
            Op("modify_attack_data", "dps", <<>>, "add",
               DocOf({<<<<>>, N(10, 1)>>})) >>],
        [id |-> "inferno_b3", cost |-> 220, effects |-> <<
            Op("modify_attack_data", "fire_rate", <<>>, "multiply",
               DocOf({<<<<>>, N(7, 5)>>})) >>],
        [id |-> "inferno_b4", cost |-> 280, effects |-> <<
            Op("modify_attack_data", "on_exit_effect", <<>>, "set",
               DocOf({<<<<"id">>, S("slow")>>,
                      <<<<"potency">>, N(1, 2)>>,
                      <<<<"duration">>, N(2, 1)>>})) >>],
        [id |-> "inferno_b5", cost |-> 550, effects |-> <<
            Op("modify_attack_data", "fire_rate", <<>>, "multiply",
               DocOf({<<<<>>, N(3, 2)>>})),
            Op("modify_nested", "", <<"attack", ".", "data", ".", "effects", ".", "fire", ".", "potency">>, "multiply",
               DocOf({<<<<>>, N(2, 1)>>})) >>] >>]

\* the stormcaller document of configs/upgrades/magic/curse_weaver.json
StormcallerUpgrades ==
    [a |-> <<
        [id |-> "stormcaller_a1", cost |-> 140, effects |-> <<
            Op("modify_attack_data", "dps", <<>>, "add",
               DocOf({<<<<>>, N(3, 1)>>})) >>],
        [id |-> "stormcaller_a2", cost |-> 210, effects |-> <<
            Op("modify_attack_data", "fire_rate", <<>>, "multiply",
               DocOf({<<<<>>, N(3, 2)>>})) >>],
        [id |-> "stormcaller_a3", cost |-> 320, effects |-> <<
            Op("modify_attack_data", "bonus_damage_vs_armor_multiplier", <<>>, "add",
               DocOf({<<<<>>, N(1, 2)>>})) >>],
        [id |-> "stormcaller_a4", cost |-> 400, effects |-> <<
            Op("modify_attack_data", "duration", <<>>, "add",
               DocOf({<<<<>>, N(1, 1)>>})) >>],
        [id |-> "stormcaller_a5", cost |-> 750, effects |-> <<
            Op("modify_attack_data", "bonus_damage_vs_armor_multiplier", <<>>, "add",
               DocOf({<<<<>>, N(1, 2)>>})),
            Op("modify_attack_data", "dps", <<>>, "add",
               DocOf({<<<<>>, N(10, 1)>>})) >>] >>,
     b |-> <<
        [id |-> "stormcaller_b1", cost |-> 150, effects |-> <<
            Op("modify_nested", "", <<"attack", ".", "data", ".", "effects">>, "add_effect",
               DocOf({<<<<"armor_break", "potency">>, N(4, 1)>>,
                      <<<<"armor_break", "duration">>, N(2, 1)>>})) >>],
        [id |-> "stormcaller_b2", cost |-> 200, effects |-> <<
            Op("modify_attack_data", "tick_rate", <<>>, "add",
               DocOf({<<<<>>, N(2, 1)>>})) >>],
        [id |-> "stormcaller_b3", cost |-> 280, effects |-> <<
            Op("modify_nested", "", <<"attack", ".", "data", ".", "effects", ".", "slow", ".", "potency">>, "add",
               DocOf({<<<<>>, N(1, 4)>>})) >>],
        [id |-> "stormcaller_b4", cost |-> 350, effects |-> <<
            Op("modify_attack_data", "fire_rate", <<>>, "multiply",
               DocOf({<<<<>>, N(13, 10)>>})) >>],
        [id |-> "stormcaller_b5", cost |-> 700, effects |-> <<
            Op("modify_nested", "", <<"attack", ".", "data", ".", "effects">>, "add_effect",
               DocOf({<<<<"vulnerability", "potency">>, N(5, 4)>>,
                      <<<<"vulnerability", "duration">>, N(1, 1)>>})) >>] >>]

\* the curse_weaver document of configs/upgrades/magic/curse_weaver.json
CurseWeaverUpgrades ==
    [a |-> <<
        [id |-> "curse_a1", cost |-> 110, effects |-> <<
            Op("modify_nested", "", <<"attack", ".", "data", ".", "effects", ".", "elemental_vulnerability", ".", "duration">>, "add",
               DocOf({<<<<>>, N(2, 1)>>})) >>],
        [id |-> "curse_a2", cost |-> 170, effects |-> <<
            Op("modify_nested", "", <<"attack", ".", "data", ".", "effects", ".", "elemental_vulnerability", ".", "potency">>, "add",
               DocOf({<<<<>>, N(1, 4)>>})) >>],
        [id |-> "curse_a3", cost |-> 240, effects |-> <<
            Op("add_effect", "", <<>>, "",
               DocOf({<<<<"id">>, S("slow")>>,
                      <<<<"potency">>, N(1, 5)>>,
                      <<<<"duration">>, N(3, 1)>>})) >>],
        [id |-> "curse_a4", cost |-> 300, effects |-> <<
            Op("add_effect", "", <<>>, "",
               DocOf({<<<<"id">>, S("armor_break")>>,
                      <<<<"potency">>, N(10, 1)>>,
                      <<<<"duration">>, N(5, 1)>>})) >>],
        [id |-> "curse_a5", cost |-> 500, effects |-> <<
            Op("add_on_death_explosion", "", <<>>, "",
               DocOf({<<<<"radius">>, N(80, 1)>>,
                      <<<<"damage">>, N(100, 1)>>})) >>] >>,
     b |-> <<
        [id |-> "curse_b1", cost |-> 100, effects |-> <<
            Op("multiply_fire_rate", "", <<>>, "",
               DocOf({<<<<>>, N(13, 10)>>})) >>],
        [id |-> "curse_b2", cost |-> 180, effects |-> <<
            Op("set_pierce", "", <<>>, "",
               DocOf({<<<<>>, N(1, 1)>>})) >>],
        [id |-> "curse_b3", cost |-> 260, effects |-> <<
            Op("multiply_blast_radius", "", <<>>, "",
               DocOf({<<<<>>, N(50, 1)>>})),
            Op("add_blast_effect", "", <<>>, "",
               DocOf({<<<<"id">>, S("elemental_vulnerability")>>,
                      <<<<"potency">>, N(5, 4)>>,
                      <<<<"duration">>, N(3, 1)>>})) >>],
        [id |-> "curse_b4", cost |-> 320, effects |-> <<
            Op("multiply_fire_rate", "", <<>>, "",
               DocOf({<<<<>>, N(7, 5)>>})) >>],
        [id |-> "curse_b5", cost |-> 550, effects |-> <<
            Op("set_pierce", "", <<>>, "",
               DocOf({<<<<>>, N(2, 1)>>})),
            Op("multiply_blast_radius", "", <<>>, "",
               DocOf({<<<<>>, N(3, 2)>>})) >>] >>]

\* configs/upgrades/support/commander.json
CommanderUpgrades ==
    [a |-> <<
        [id |-> "commander_a1", cost |-> 220, effects |-> <<
            Op("modify_nested", "", <<"auras", "[", "0", "]", ".", "effects", ".", "damage_boost", ".", "potency">>, "add",
               DocOf({<<<<>>, N(1, 10)>>})) >>],
        [id |-> "commander_a2", cost |-> 350, effects |-> <<
            Op("modify_nested", "", <<"auras", "[", "0", "]", ".", "effects">>, "add_effect",
               DocOf({<<<<"fire_rate_boost", "potency">>, N(23, 20)>>,
                      <<<<"fire_rate_boost", "duration">>, N(1, 2)>>})) >>],
        [id |-> "commander_a3", cost |-> 480, effects |-> <<
            Op("modify_nested", "", <<"auras", "[", "0", "]", ".", "range">>, "add",
               DocOf({<<<<>>, N(30, 1)>>})) >>],
        [id |-> "commander_a4", cost |-> 800, effects |-> <<
            Op("modify_nested", "", <<"auras", "[", "0", "]", ".", "effects", ".", "damage_boost", ".", "potency">>, "add",
               DocOf({<<<<>>, N(3, 20)>>})),
            Op("modify_nested", "", <<"auras", "[", "0", "]", ".", "effects", ".", "fire_rate_boost", ".", "potency">>, "add",
               DocOf({<<<<>>, N(1, 10)>>})) >>],
        [id |-> "commander_a5", cost |-> 2500, effects |-> <<
            Op("modify_nested", "", <<"auras", "[", "0", "]", ".", "effects", ".", "damage_boost", ".", "potency">>, "add",
               DocOf({<<<<>>, N(1, 5)>>})),
            Op("modify_nested", "", <<"auras", "[", "0", "]", ".", "effects", ".", "fire_rate_boost", ".", "potency">>, "add",
               DocOf({<<<<>>, N(3, 20)>>})),
            Op("modify_nested", "", <<"auras", "[", "0", "]", ".", "range">>, "add",
               DocOf({<<<<>>, N(40, 1)>>})) >>] >>,
     b |-> <<
        [id |-> "commander_b1", cost |-> 200, effects |-> <<
            Op("modify_nested", "", <<"auras", "[", "0", "]", ".", "effects">>, "add_effect",
               DocOf({<<<<"range_boost", "potency">>, N(23, 20)>>,
                      <<<<"range_boost", "duration">>, N(1, 2)>>})) >>],
        [id |-> "commander_b2", cost |-> 300, effects |-> <<
            Op("modify_nested", "", <<"auras", "[", "0", "]", ".", "range">>, "add",
               DocOf({<<<<>>, N(40, 1)>>})) >>],
        [id |-> "commander_b3", cost |-> 550, effects |-> <<
            Op("modify_nested", "", <<"auras", "[", "0", "]", ".", "effects", ".", "range_boost", ".", "potency">>, "add",
               DocOf({<<<<>>, N(1, 10)>>})) >>],
        [id |-> "commander_b4", cost |-> 900, effects |-> <<
            Op("modify_nested", "", <<"auras", "[", "0", "]", ".", "range">>, "add",
               DocOf({<<<<>>, N(60, 1)>>})) >>],
        [id |-> "commander_b5", cost |-> 2800, effects |-> <<
            Op("modify_nested", "", <<"auras", "[", "0", "]", ".", "effects", ".", "damage_boost", ".", "potency">>, "add",
               DocOf({<<<<>>, N(3, 20)>>})),
            Op("modify_nested", "", <<"auras", "[", "0", "]", ".", "effects", ".", "range_boost", ".", "potency">>, "add",
               DocOf({<<<<>>, N(3, 20)>>})),
            Op("modify_nested", "", <<"auras", "[", "0", "]", ".", "effects">>, "add_effect",
               DocOf({<<<<"fire_rate_boost", "potency">>, N(11, 10)>>,
                      <<<<"fire_rate_boost", "duration">>, N(1, 2)>>})) >>] >>]

\* configs/upgrades/support/archmage.json
ArchmageUpgrades ==
    [a |-> <<
        [id |-> "archmage_a1", cost |-> 300, effects |-> <<
            Op("modify_nested", "", <<"auras", "[", "0", "]", ".", "effects", ".", "effect_potency_boost", ".", "potency">>, "add",
               DocOf({<<<<>>, N(1, 5)>>})) >>],
        [id |-> "archmage_a2", cost |-> 550, effects |-> <<
            Op("modify_nested", "", <<"auras">>, "add_aura",
               DocOf({<<<<"range">>, N(100, 1)>>,
                      <<<<"target_type">>, S("ENEMY")>>,
                      <<<<"effects", "vulnerability", "potency">>, N(6, 5)>>,
                      <<<<"effects", "vulnerability", "duration">>, N(1, 1)>>})) >>],
        [id |-> "archmage_a3", cost |-> 700, effects |-> <<
            Op("modify_nested", "", <<"auras", "[", "0", "]", ".", "range">>, "add",
               DocOf({<<<<>>, N(40, 1)>>})),
            Op("modify_nested", "", <<"auras", "[", "1", "]", ".", "range">>, "add",
               DocOf({<<<<>>, N(40, 1)>>})) >>],
        [id |-> "archmage_a4", cost |-> 1500, effects |-> <<
            Op("modify_nested", "", <<"auras", "[", "1", "]", ".", "effects", ".", "vulnerability", ".", "potency">>, "add",
               DocOf({<<<<>>, N(3, 10)>>})) >>],
        [id |-> "archmage_a5", cost |-> 4000, effects |-> <<
            Op("modify_nested", "", <<"attack">>, "set",
               DocOf({<<<<"type">>, S("standard_projectile")>>,
                      <<<<"data", "damage">>, N(50, 1)>>,
                      <<<<"data", "range">>, N(300, 1)>>,
                      <<<<"data", "fire_rate">>, N(1, 2)>>,
                      <<<<"data", "effects", "stun", "potency">>, N(0, 1)>>,
                      <<<<"data", "effects", "stun", "duration">>, N(1, 1)>>})) >>] >>,
     b |-> <<
        [id |-> "archmage_b1", cost |-> 350, effects |-> <<
            Op("modify_nested", "", <<"auras">>, "add_aura",
               DocOf({<<<<"range">>, N(110, 1)>>,
                      <<<<"target_type">>, S("ENEMY")>>,
                      <<<<"effects", "fire", "potency">>, N(25, 1)>>,
                      <<<<"effects", "fire", "duration">>, N(2, 1)>>})) >>],
        [id |-> "archmage_b2", cost |-> 500, effects |-> <<
            Op("modify_nested", "", <<"auras", "[", "1", "]", ".", "effects">>, "add_effect",
               DocOf({<<<<"slow", "potency">>, N(3, 10)>>,
                      <<<<"slow", "duration">>, N(1, 1)>>})) >>],
        [id |-> "archmage_b3", cost |-> 800, effects |-> <<
            Op("modify_nested", "", <<"attack">>, "set",
               DocOf({<<<<"type">>, S("standard_projectile")>>,
                      <<<<"data", "damage">>, N(15, 1)>>,
                      <<<<"data", "range">>, N(250, 1)>>,
                      <<<<"data", "fire_rate">>, N(2, 1)>>,
                      <<<<"data", "chains">>, N(2, 1)>>})) >>],
        [id |-> "archmage_b4", cost |-> 1300, effects |-> <<
            Op("modify_nested", "", <<"auras", "[", "0", "]", ".", "range">>, "add",
               DocOf({<<<<>>, N(30, 1)>>})),
            Op("modify_nested", "", <<"auras", "[", "1", "]", ".", "range">>, "add",
               DocOf({<<<<>>, N(30, 1)>>})),
            Op("modify_nested", "", <<"auras", "[", "1", "]", ".", "effects", ".", "fire", ".", "potency">>, "multiply",
               DocOf({<<<<>>, N(3, 2)>>})),
            Op("modify_nested", "", <<"auras", "[", "1", "]", ".", "effects", ".", "slow", ".", "potency">>, "add",
               DocOf({<<<<>>, N(3, 20)>>})) >>],
        [id |-> "archmage_b5", cost |-> 4500, effects |-> <<
            Op("modify_nested", "", <<"attack", ".", "data", ".", "damage">>, "add",
               DocOf({<<<<>>, N(35, 1)>>})),
            Op("modify_nested", "", <<"attack", ".", "data", ".", "chains">>, "set",
               DocOf({<<<<>>, N(5, 1)>>})) >>] >>]

Paths == {"a", "b"}

Upgrades(type) ==
    CASE type = "mortar" -> MortarUpgrades
      [] type = "inferno_weaver" -> InfernoWeaverUpgrades
      [] type = "stormcaller" -> StormcallerUpgrades
      [] type = "curse_weaver" -> CurseWeaverUpgrades
      [] type = "commander" -> CommanderUpgrades
      [] type = "archmage" -> ArchmageUpgrades

\* the upgrades of both paths, each with its place on its path
Placed(ups) ==
    UNION {{[id |-> ups[p][i].id, cost |-> ups[p][i].cost, path |-> p,
             tier |-> i, effects |-> ups[p][i].effects] : i \in DOMAIN ups[p]}
           : p \in Paths}

AllUpgrades(type) == Placed(Upgrades(type))

\* the key of an upgrade in initial_state.upgrade_definitions[type]
UpgradeKey(path, tier) == "path_" \o path \o "_" \o ToString(tier)

Keyed(all) ==
    [k \in {UpgradeKey(u.path, u.tier) : u \in all} |->
        CHOOSE u \in all : UpgradeKey(u.path, u.tier) = k]

\* initial_state.upgrade_definitions[type]
UpgradeDefinitions(type) == Keyed(AllUpgrades(type))

\* the number of tiers of a path
NumTiers(all, path) == Cardinality({u \in all : u.path = path})

----------------------------------------------------------------------------
(* Towers, the upgrade panel of the client and the purchase handler.       *)

NewTower(type) ==
    [type_id |-> type, path_a_tier |-> 0, path_b_tier |-> 0,
     definition |-> TowerTemplate(type)]

TierOf(tower, path) ==
    IF path = "a" THEN tower.path_a_tier ELSE tower.path_b_tier

\* a field of attack.data as a number, 0 when the tower has none
StatOf(d, key) ==
    IF IsNumber(d, AttackData \o <<key>>) THEN d[AttackData \o <<key>>] ELSE N(0, 1)

\* the stats of a tower in a game_tick snapshot, no effect being active
TowerStats(d) ==
    [damage |-> StatOf(d, "damage"), fire_rate |-> StatOf(d, "fire_rate"),
     blast_radius |-> StatOf(d, "blast_radius"), pierce |-> StatOf(d, "pierce"),
     range |-> StatOf(d, "range")]

\* the game_tick payload as far as the upgrade panel reads it
Snapshot(g, ts) ==
    [gold |-> g,
     towers |-> [s \in DOMAIN ts |->
                    [type_id |-> ts[s].type_id,
                     path_a_tier |-> ts[s].path_a_tier,
                     path_b_tier |-> ts[s].path_b_tier]]]

\* findNextUpgrade's null
NoUpgrade == [id |-> "null", cost |-> 0, path |-> "", tier |-> 0, effects |-> <<>>]

\* towerUpgrades[nextUpgradeId] || null
Lookup(towerUpgrades, nextUpgradeId) ==
    IF nextUpgradeId \in DOMAIN towerUpgrades
    THEN towerUpgrades[nextUpgradeId]
    ELSE NoUpgrade

\* a mutant of FindNextUpgrade: the panel offers the tier after the next
FindNextUpgradeSkipsATier(tower, path) ==
    Lookup(UpgradeDefinitions(tower.type_id), UpgradeKey(path, TierOf(tower, path) + 2))

\* the next upgrade the panel offers on a path of the selected tower
FindNextUpgrade(tower, path) ==
    IF tower.type_id \notin UpgradableTowers THEN NoUpgrade
    ELSE Lookup(UpgradeDefinitions(tower.type_id),
                UpgradeKey(path, TierOf(tower, path) + 1))

\* a mutant of CanAfford: the button is always enabled
CanAffordAnything(g, upgrade) == TRUE

\* the panel's canAfford: an upgrade button is enabled only when it holds
\* a mutant of CanAfford: the gold must exceed the cost
CanAffordStrict(g, upgrade) == g > upgrade.cost

CanAfford(g, upgrade) == g >= upgrade.cost

Request(source, tower_id, upgrade_id) ==
    [source |-> source, tower_id |-> tower_id, upgrade_id |-> upgrade_id]

NoRequest == Request("none", "none", "none")

Refused(g, tower, why) == [result |-> why, gold |-> g, tower |-> tower]

\* the sale of upgrade u once its effects were applied with result r
Sell(g, tower, u, r) ==
    IF ~r.ok THEN Refused(g, tower, "application_error")
    ELSE [result |-> "accepted",
          gold |-> g - u.cost,
          tower |-> [type_id |-> tower.type_id,
                     path_a_tier |-> IF u.path = "a" THEN u.tier ELSE tower.path_a_tier,
                     path_b_tier |-> IF u.path = "b" THEN u.tier ELSE tower.path_b_tier,
                     definition |-> r.doc]]

\* the decision on upgrade u of a path with numTiers tiers
Decide(g, tower, u, numTiers) ==
    IF TierOf(tower, u.path) >= numTiers
        THEN Refused(g, tower, "refused_path_maxed")
    ELSE IF u.tier # TierOf(tower, u.path) + 1
        THEN Refused(g, tower, "refused_out_of_order")
    ELSE IF g < u.cost
        THEN Refused(g, tower, "refused_insufficient_gold")
    ELSE Sell(g, tower, u, ApplyEffects(tower.definition, u.effects))

\* the decision on the upgrade named upgrade_id among the upgrades all
DecideAmong(g, tower, upgrade_id, all) ==
    IF \A u \in all : u.id # upgrade_id
    THEN Refused(g, tower, "refused_unknown_upgrade")
    ELSE Decide(g, tower, CHOOSE u \in all : u.id = upgrade_id,
                NumTiers(all, (CHOOSE u \in all : u.id = upgrade_id).path))

\* the server's decision on an upgrade_tower request and the state after it
PurchaseUpgrade(g, tower, upgrade_id) ==
    DecideAmong(g, tower, upgrade_id, AllUpgrades(tower.type_id))

\* a mutant of Commit: the upgraded definition is written to every tower
CommitToSharedTemplate(req, out) ==
    /\ gold' = out.gold
    /\ towers' = [s \in DOMAIN towers |->
                    IF s = req.tower_id THEN out.tower
                    ELSE [towers[s] EXCEPT !.definition = out.tower.definition]]
    /\ lastReq' = req
    /\ lastResult' = out.result
    /\ catalog' = catalog

\* a mutant of Commit: the tower's definition is the template itself, so the
\* upgraded definition is the template from then on
CommitIntoTemplate(req, out) ==
    /\ gold' = out.gold
    /\ towers' = [towers EXCEPT ![req.tower_id] = out.tower]
    /\ lastReq' = req
    /\ lastResult' = out.result
    /\ catalog' = [catalog EXCEPT ![out.tower.type_id] = out.tower.definition]

\* the outcome of a request becomes the state of the game
Commit(req, out) ==
    /\ gold' = out.gold
    /\ towers' = [towers EXCEPT ![req.tower_id] = out.tower]
    /\ lastReq' = req
    /\ lastResult' = out.result
    /\ catalog' = catalog

\* the server handles one upgrade_tower request
HandleUpgrade(source, tower_id, upgrade_id) ==
    Commit(Request(source, tower_id, upgrade_id),
           PurchaseUpgrade(gold, towers[tower_id], upgrade_id))

\* the click on the button of nextUpgrade, enabled only when affordable
Click(tower_id, nextUpgrade) ==
    /\ nextUpgrade # NoUpgrade
    /\ CanAfford(view.gold, nextUpgrade)
    /\ HandleUpgrade("panel", tower_id, nextUpgrade.id)

\* the player clicks an enabled upgrade button of the panel; the request is
\* built from the latest snapshot the client holds
PanelPurchase(tower_id, path) ==
    /\ Click(tower_id, FindNextUpgrade(view.towers[tower_id], path))
    /\ UNCHANGED <<view, purchaseLog>>
    /\ UNCHANGED <<effectVars, interpVars, targetVars, loopVars, clientVars>>

\* an upgrade_tower message with an arbitrary upgrade id reaches the server
RawPurchase(tower_id, upgrade_id) ==
    /\ HandleUpgrade("raw", tower_id, upgrade_id)
    /\ UNCHANGED <<view, purchaseLog>>
    /\ UNCHANGED <<effectVars, interpVars, targetVars, loopVars, clientVars>>

\* the server pushes a game_tick snapshot to the client
GameTick ==
    /\ view' = Snapshot(gold, towers)
    /\ UNCHANGED <<gold, towers, lastReq, lastResult, purchaseLog, catalog>>
    /\ UNCHANGED <<effectVars, interpVars, targetVars, loopVars, clientVars>>

\* upgrade ids a message can name for a tower: those of its type and a bogus one
RawUpgradeIds(type) == {u.id : u \in AllUpgrades(type)} \cup {"no_such_upgrade"}

\* the id of the upgrade following the tower's tier on a path
NextUpgradeId(tower, path) == FindNextUpgrade(tower, path).id

\* the purchase log after the request just handled
Logged(tower_id) ==
    IF lastResult' = "accepted"
    THEN [purchaseLog EXCEPT ![tower_id] = Append(@, lastReq'.upgrade_id)]
    ELSE purchaseLog

----------------------------------------------------------------------------
(* Stat resolution of any entity, enemy or tower.                          *)

\* the tower type the stats are resolved for, next to the enemy types
ResolvedTowers == {"mortar"}

\* one stat of a tower: the upgraded base value of the definition, plus the
\* additive contributions, times the multipliers
ResolveTowerStat(d, list, stat) ==
    RatMul(RatAdd(StatOf(d, stat), Rat(SumAdditive(list, stat), 1)),
           ProductMultipliers(list, stat))

\* resolveEffectiveStats of a tower: fire_rate is clamped to >= 0
ResolveTowerStats(d, list) ==
    [damage |-> ResolveTowerStat(d, list, "damage"),
     range |-> ResolveTowerStat(d, list, "range"),
     fire_rate |-> ClampNonNeg(ResolveTowerStat(d, list, "fire_rate"))]

\* resolveEffectiveStats(entity) of an entity of type t holding the instances
Resolved(t, list) ==
    IF t \in TargetTypes THEN ResolveEffectiveStats(t, list)
    ELSE ResolveTowerStats(TowerTemplate(t), list)

\* the stat effects of the catalog that act on a stat of the entity
StatEffectsOn(t) ==
    {e \in EffectIds :
        EffectStat(e) \in DOMAIN Resolved(t, <<>>)}

\* the effects the target holds all act on the stat that e acts on
OnOneStat(list, e) ==
    \A i \in DOMAIN list : EffectStat(list[i].effect_id) = EffectStat(e)

\* some tower or aura in range applies a stat effect to the target; the
\* effects followed at one time are those on one stat
ApplyStatEffect(e, p, d) ==
    LET imm == Immunities(targetType)
        next == ApplyToTarget(active, imm, e, p, d)
    IN  /\ alive
        /\ OnOneStat(active, e)
        /\ WithinBounds(next)
        /\ active' = next
        /\ lastOp' = OpRecord("apply", e, p, d, ApplyOutcome(imm, e),
                              HasInstance(active, e))
        /\ statBlock' = NoStats
        /\ resolveCalls' = 0
        /\ UNCHANGED <<targetType, effectInPlay, alive, clock, tickDamage, tickHeal>>
        /\ UNCHANGED <<upgradeVars, interpVars, targetVars, loopVars, clientVars>>

\* a mutant of Resolve: the call ages the instances it reads
ResolveAging ==
    /\ alive
    /\ resolveCalls < MaxCalls
    /\ statBlock' = Resolved(targetType, active)
    /\ resolveCalls' = resolveCalls + 1
    /\ active' = Decay(active)
    /\ UNCHANGED <<targetType, effectInPlay, alive, clock, tickDamage, tickHeal, lastOp>>
    /\ UNCHANGED <<upgradeVars, interpVars, targetVars, loopVars, clientVars>>

\* a consumer (movement, damage, targeting) asks for the target's StatBlock
Resolve ==
    /\ alive
    /\ resolveCalls < MaxCalls
    /\ statBlock' = Resolved(targetType, active)
    /\ resolveCalls' = resolveCalls + 1
    /\ UNCHANGED <<targetType, effectInPlay, alive, active, clock, tickDamage,
                   tickHeal, lastOp>>
    /\ UNCHANGED <<upgradeVars, interpVars, targetVars, loopVars, clientVars>>

----------------------------------------------------------------------------
(* The effect ids the configuration documents refer to.                    *)

\* the effect ids a definition, or the value of an operation, refers to: the
\* keys of an effects mapping, the id of an entry that carries a potency,
\* and an effect_id
EffectRefs(d) ==
    UNION {{q[i + 1] : i \in {j \in 1..(Len(q) - 1) : q[j] = "effects"}}
           \cup (IF /\ q # <<>>
                    /\ d[q].t = "str"
                    /\ \/ q[Len(q)] = "effect_id"
                       \/ /\ q[Len(q)] = "id"
                          /\ SubSeq(q, 1, Len(q) - 1) \o <<"potency">> \in DOMAIN d
                 THEN {d[q].s} ELSE {})
           : q \in DOMAIN d}

\* the effect ids an EffectOperation refers to, in its value and in its path
OpEffectRefs(op) ==
    (IF op.type = "modify_nested" /\ op.operation = "add_effect"
     THEN {q[1] : q \in DOMAIN op.value}
     ELSE EffectRefs(op.value))
    \cup {op.path[i + 2] :
            i \in {j \in 1..(Len(op.path) - 2) :
                      op.path[j] = "effects" /\ op.path[j + 1] = "."}}

\* attack.data.effects of the tower types without a modelled upgrade file
\* (freezer, energy_beacon)
OtherTowerEffects == {"slow"}

\* the effect ids of the energy_beacon upgrade paths: add_effect,
\* add_chance_effect and add_area_effect_on_hit values
BeaconUpgradeEffects == {"armor_break", "vulnerability", "bleed", "stun", "slow"}

\* the effect ids of the freezer upgrade paths: add_effect values and the
\* effect_id of freezer_a5's add_on_death_explosion
FreezerUpgradeEffects == {"stun", "vulnerability"}

\* base_stats.immunities of the four bosses
BossImmunities == {"slow", "stun"}

----------------------------------------------------------------------------
(* Targeting priority: the AI personas of the towers.                      *)

Personas ==
    {"SOLDIER", "EXECUTIONER", "SNIPER", "ASSASSIN", "CONTAGION", "ARTILLERY",
     "ARMOR_PIERCER", "SHREDDER"}

\* a mutant of PriorityFunction: the Soldier sorts like the Executioner
PriorityFunctionSoldierFirst(p) ==
    CASE p = "SOLDIER" -> "sort_by_first"
      [] p = "EXECUTIONER" -> "sort_by_first"
      [] p = "SNIPER" -> "sort_by_strongest"
      [] p = "ASSASSIN" -> "sort_by_weakest"
      [] p = "CONTAGION" -> "sort_by_unaffected"
      [] p = "ARTILLERY" -> "sort_by_group_density"
      [] p = "ARMOR_PIERCER" -> "sort_by_highest_armor"
      [] p = "SHREDDER" -> "sort_by_lowest_armor"

\* priority_function of each persona
PriorityFunction(p) ==
    CASE p = "SOLDIER" -> "sort_by_closest"
      [] p = "EXECUTIONER" -> "sort_by_first"
      [] p = "SNIPER" -> "sort_by_strongest"
      [] p = "ASSASSIN" -> "sort_by_weakest"
      [] p = "CONTAGION" -> "sort_by_unaffected"
      [] p = "ARTILLERY" -> "sort_by_group_density"
      [] p = "ARMOR_PIERCER" -> "sort_by_highest_armor"
      [] p = "SHREDDER" -> "sort_by_lowest_armor"

\* the priority functions that put the largest sort key first: path
\* progress, maximum HP, enemies nearby, armor; the others put the smallest
\* first: distance, current HP, having the tower's debuff (0 or 1), armor
Descending(f) ==
    f \in {"sort_by_first", "sort_by_strongest", "sort_by_group_density",
           "sort_by_highest_armor"}

\* the values the sort key of a candidate takes: a flag for
\* sort_by_unaffected, otherwise the scenario's values
KeyValues(f) == IF f = "sort_by_unaffected" THEN {0, 1} ELSE {45, 120, 200}

\* a candidate: its position in spawn order and the value of the attribute
\* the persona's priority function sorts by
Candidate(spawn, key) == [spawn |-> spawn, key |-> key]

\* no call of selectTarget yet / selectTarget's null
Unasked == Candidate(0, 0)

Null == Candidate(-1, 0)

\* a goes strictly before b under the priority function f
Before(f, a, b) == IF Descending(f) THEN a.key > b.key ELSE a.key < b.key

\* c put into a sorted list behind everything that does not go after it
RECURSIVE Insert(_, _, _)
Insert(f, sorted, c) ==
    IF sorted = <<>> THEN <<c>>
    ELSE IF Before(f, c, Head(sorted)) THEN <<c>> \o sorted
    ELSE <<Head(sorted)>> \o Insert(f, Tail(sorted), c)

\* the stable sort of the list under the priority function f
RECURSIVE StableSort(_, _)
StableSort(f, list) ==
    IF list = <<>> THEN <<>>
    ELSE Insert(f, StableSort(f, SubSeq(list, 1, Len(list) - 1)), list[Len(list)])

\* selectTarget(tower, candidateEnemiesInRange) for a tower of persona p
SelectTarget(p, list) ==
    IF list = <<>> THEN Null
    ELSE Head(StableSort(PriorityFunction(p), list))

\* the tower asks for its target
Select ==
    /\ selected = Unasked
    /\ selected' = SelectTarget(persona, candidates)
    /\ UNCHANGED <<persona, candidates>>
    /\ UNCHANGED <<effectVars, upgradeVars, interpVars, loopVars, clientVars>>

\* the enemies leave the range and others come into it
Regroup(list) ==
    /\ selected # Unasked
    /\ candidates' = list
    /\ selected' = Unasked
    /\ UNCHANGED persona
    /\ UNCHANGED <<effectVars, upgradeVars, interpVars, loopVars, clientVars>>

\* the candidate lists of a persona: up to MaxCandidates enemies in spawn
\* order, each with a sort key
CandidateLists(p) ==
    UNION {[1..n -> KeyValues(PriorityFunction(p))] : n \in 0..MaxCandidates}

InRange(keys) == [i \in DOMAIN keys |-> Candidate(i, keys[i])]

----------------------------------------------------------------------------
(* Tower placement from the type catalog.                                  *)

\* the build cost of each tower type
TowerCost(type) ==
    CASE type = "mortar" -> 120
      [] type = "inferno_weaver" -> 150
      [] type = "stormcaller" -> 165
      [] type = "curse_weaver" -> 130
      [] type = "commander" -> 160
      [] type = "archmage" -> 190

\* the tower type catalog as loaded at startup
Catalog == [type \in UpgradableTowers |-> TowerTemplate(type)]

\* a tower instance with its own copy of a template
Instantiate(type, template) ==
    [type_id |-> type, path_a_tier |-> 0, path_b_tier |-> 0,
     definition |-> template]

\* the server handles a place_tower request for a free tower id
PlaceTower(tower_id, type) ==
    /\ tower_id \notin DOMAIN towers
    /\ lastReq' = Request("place", tower_id, type)
    /\ IF gold < TowerCost(type)
       THEN /\ lastResult' = "refused_insufficient_gold"
            /\ UNCHANGED <<gold, towers>>
       ELSE /\ lastResult' = "placed"
            /\ gold' = gold - TowerCost(type)
            /\ towers' = [s \in DOMAIN towers \cup {tower_id} |->
                            IF s = tower_id
                            THEN Instantiate(type, catalog[type])
                            ELSE towers[s]]
    /\ UNCHANGED <<view, purchaseLog, catalog>>
    /\ UNCHANGED <<effectVars, interpVars, targetVars, loopVars, clientVars>>

\* a placed tower, not yet MaxUpgrades tiers up, is sold the next tier of a path
UpgradePlaced(tower_id, path) ==
    /\ tower_id \in DOMAIN towers
    /\ towers[tower_id].path_a_tier + towers[tower_id].path_b_tier < MaxUpgrades
    /\ HandleUpgrade("raw", tower_id, NextUpgradeId(towers[tower_id], path))
    /\ UNCHANGED <<view, purchaseLog>>
    /\ UNCHANGED <<effectVars, interpVars, targetVars, loopVars, clientVars>>

\* the definition a fresh tower has after the upgrades named in log
RECURSIVE Replayed(_, _, _)
Replayed(d, all, log) ==
    IF log = <<>> THEN d
    ELSE Replayed(ApplyEffects(d, (CHOOSE u \in all : u.id = Head(log)).effects).doc,
                  all, Tail(log))

----------------------------------------------------------------------------
(* The browser client: the game store, the inbound message handler, the  *)
(* WebSocket service, the build bar and the upgrade panel.                *)

\* JavaScript's null and undefined where an object is expected, null where a
\* string id is expected
null == [t |-> "null"]
undefined == [t |-> "undefined"]
nullId == "null"

IsObject(v) == v \notin {null, undefined}

\* obj.key: undefined when the object has no such property
Get(obj, key) == IF key \in DOMAIN obj THEN obj[key] ELSE undefined

\* message.type, "undefined" when the message has none
TypeOf(message) == IF "type" \in DOMAIN message THEN message.type ELSE "undefined"

AppScreen == {"MainMenu", "LevelSelect", "Workshop", "InGame"}

\* the store as created
InitialStore ==
    [activeScreen |-> "MainMenu",
     initialState |-> null,
     gameState |-> null,
     entities |-> null,
     isConnected |-> FALSE,
     selectedTowerToBuild |-> nullId,
     selectedEntityId |-> nullId]

\* zustand's set: the partial state is merged into the state
Set(state, partial) ==
    [k \in DOMAIN state |-> IF k \in DOMAIN partial THEN partial[k] ELSE state[k]]

setActiveScreen(state, screen) == Set(state, [activeScreen |-> screen])

setConnectionStatus(state, status) == Set(state, [isConnected |-> status])

setInitialState(state, data) == Set(state, [initialState |-> data])

\* a mutant of setGameTickState: the two fields are set by two calls, the
\* second of which is lost
setGameTickStateHalf(state, gameState, entities) ==
    Set(state, [gameState |-> gameState])

setGameTickState(state, gameState, entities) ==
    Set(state, [gameState |-> gameState, entities |-> entities])

selectTowerToBuild(state, towerId) ==
    Set(state, [selectedTowerToBuild |-> towerId, selectedEntityId |-> nullId])

\* a mutant of setSelectedEntityId: the tower-to-build selection is kept
setSelectedEntityIdKeepsTower(state, entityId) ==
    IF state.selectedEntityId = entityId
    THEN Set(state, [selectedEntityId |-> nullId])
    ELSE Set(state, [selectedEntityId |-> entityId])

\* a mutant of setSelectedEntityId: no toggle, the id given is selected
setSelectedEntityIdNoToggle(state, entityId) ==
    Set(state, [selectedEntityId |-> entityId, selectedTowerToBuild |-> nullId])

setSelectedEntityId(state, entityId) ==
    IF state.selectedEntityId = entityId
    THEN Set(state, [selectedEntityId |-> nullId])
    ELSE Set(state, [selectedEntityId |-> entityId, selectedTowerToBuild |-> nullId])

clearSelections(state) ==
    Set(state, [selectedTowerToBuild |-> nullId, selectedEntityId |-> nullId])

\* the text of an inbound frame: a JSON document, or something else
Json(value) == [wellFormed |-> TRUE, value |-> value]
Garbage == [wellFormed |-> FALSE]

\* JSON.parse: the value, or a SyntaxError
JSONparse(text) ==
    IF text.wellFormed THEN [threw |-> FALSE, value |-> text.value]
    ELSE [threw |-> TRUE]

\* what websocket.onmessage does with a frame: which setter it calls, if any,
\* and what it logs; every exception is caught
Handling(data) ==
    LET parsed == JSONparse(data)
    IN  IF parsed.threw THEN [call |-> "none", log |-> "error"]
        ELSE IF ~IsObject(parsed.value) THEN [call |-> "none", log |-> "error"]
        ELSE IF TypeOf(parsed.value) = "initial_state"
             THEN [call |-> "setInitialState", log |-> "none"]
        ELSE IF TypeOf(parsed.value) = "game_tick"
             THEN IF IsObject(Get(parsed.value, "data"))
                  THEN [call |-> "setGameTickState", log |-> "none"]
                  ELSE [call |-> "none", log |-> "error"]
        ELSE [call |-> "none", log |-> "warn"]

\* a mutant of onmessage: a game tick also clears the selections
onmessageClearing(state, data) ==
    LET message == JSONparse(data).value
    IN  CASE Handling(data).call = "setInitialState" ->
                setInitialState(state, Get(message, "data"))
          [] Handling(data).call = "setGameTickState" ->
                clearSelections(setGameTickState(state, Get(message.data, "game_state"),
                                                 Get(message.data, "entities")))
          [] OTHER -> state

\* websocket.onmessage
onmessage(state, data) ==
    LET message == JSONparse(data).value
    IN  CASE Handling(data).call = "setInitialState" ->
                setInitialState(state, Get(message, "data"))
          [] Handling(data).call = "setGameTickState" ->
                setGameTickState(state, Get(message.data, "game_state"),
                                 Get(message.data, "entities"))
          [] OTHER -> state

\* the most recent call or event
Call(kind, arg, log) == [kind |-> kind, arg |-> arg, log |-> log]
NoCall == Call("none", nullId, "none")
NoTick == [none |-> TRUE]

\* the game_tick data the client has received last
Received(data) ==
    IF Handling(data).call = "setGameTickState"
    THEN JSONparse(data).value.data ELSE lastTick

\* an object of a JSON document
Object(fields) == fields @@ [t |-> "object"]

\* a tower as the entities payload lists it
TowerEntity(id, type, a, b) ==
    Object([id |-> id, type_id |-> type, path_a_tier |-> a, path_b_tier |-> b])

\* the data of the game ticks the server sends: gold and wave, the towers
GameTickData(g, wave, ts) ==
    Object([game_state |-> Object([gold |-> g, wave |-> wave]),
            entities |-> Object([towers |-> ts])])

\* the initial_state data: the buildable towers and the upgrade definitions
InitialStateData ==
    Object([buildable_towers |-> <<"mortar", "commander">>,
            upgrade_definitions |-> [type \in UpgradableTowers |-> UpgradeDefinitions(type)]])

\* the frames the store is followed over: three ticks that differ in game
\* state and in entities, a tick without data, one with empty data, the
\* initial state, a message of another type, one without type, JSON null,
\* and a frame that is not JSON
StoreTicks ==
    {GameTickData(400, 1, <<>>),
     GameTickData(250, 1, <<TowerEntity("t1", "mortar", 0, 0)>>),
     GameTickData(90, 2, <<TowerEntity("t1", "mortar", 1, 0), TowerEntity("t2", "commander", 0, 0)>>)}

StoreFrames ==
    {Json(Object([type |-> "game_tick", data |-> d])) : d \in StoreTicks}
    \cup {Json(Object([type |-> "game_tick"])),
          Json(Object([type |-> "game_tick", data |-> Object(<<>>)])),
          Json(Object([type |-> "initial_state", data |-> InitialStateData])),
          Json(Object([type |-> "game_over", data |-> Object(<<>>)])),
          Json(Object([data |-> Object(<<>>)])),
          Json(null),
          Garbage}

\* a frame arrives on an open socket
Message(s, data) ==
    /\ s \in DOMAIN sockets
    /\ sockets[s] = "OPEN"
    /\ store' = onmessage(store, data)
    /\ lastTick' = Received(data)
    /\ lastCall' = Call("message", Handling(data).call, Handling(data).log)
    /\ UNCHANGED <<websocket, sockets, wire>>
    /\ UNCHANGED <<effectVars, upgradeVars, interpVars, targetVars, loopVars>>

\* the ids the selections are called with
TowerTypeIds == {"mortar", "commander"}
EntityIds == {"t1", "t2"}

\* a store action is called from the canvas, the top bar or a menu
SelectTowerToBuild(towerId) ==
    /\ store' = selectTowerToBuild(store, towerId)
    /\ lastCall' = Call("selectTowerToBuild", towerId, "none")
    /\ UNCHANGED <<websocket, sockets, wire, lastTick>>
    /\ UNCHANGED <<effectVars, upgradeVars, interpVars, targetVars, loopVars>>

SetSelectedEntityId(entityId) ==
    /\ store' = setSelectedEntityId(store, entityId)
    /\ lastCall' = Call("setSelectedEntityId", entityId, "none")
    /\ UNCHANGED <<websocket, sockets, wire, lastTick>>
    /\ UNCHANGED <<effectVars, upgradeVars, interpVars, targetVars, loopVars>>

ClearSelections ==
    /\ store' = clearSelections(store)
    /\ lastCall' = Call("clearSelections", nullId, "none")
    /\ UNCHANGED <<websocket, sockets, wire, lastTick>>
    /\ UNCHANGED <<effectVars, upgradeVars, interpVars, targetVars, loopVars>>

\* the main menu's Play button
HandlePlayClick ==
    /\ store.activeScreen = "MainMenu"
    /\ store' = setActiveScreen(store, "InGame")
    /\ lastCall' = Call("setActiveScreen", "InGame", "none")
    /\ UNCHANGED <<websocket, sockets, wire, lastTick>>
    /\ UNCHANGED <<effectVars, upgradeVars, interpVars, targetVars, loopVars>>

\* a mutant of handleTowerSelect: the clicked type is always selected
handleTowerSelectAlways(state, towerId) == selectTowerToBuild(state, towerId)

\* BuildBar's handleTowerSelect, on the selection the bar was rendered with
handleTowerSelect(state, towerId) ==
    IF state.selectedTowerToBuild = towerId
    THEN selectTowerToBuild(state, nullId)
    ELSE selectTowerToBuild(state, towerId)

\* a button of the build bar is clicked; the bar shows the buildable towers
\* once the initial state is there
HandleTowerSelect(towerId) ==
    /\ IsObject(store.initialState)
    /\ \E i \in DOMAIN store.initialState.buildable_towers :
            store.initialState.buildable_towers[i] = towerId
    /\ store' = handleTowerSelect(store, towerId)
    /\ lastCall' = Call("handleTowerSelect", towerId, "none")
    /\ UNCHANGED <<websocket, sockets, wire, lastTick>>
    /\ UNCHANGED <<effectVars, upgradeVars, interpVars, targetVars, loopVars>>

\* the service holds a socket and that socket is open
HoldsOpen(ws, socks) == ws # 0 /\ socks[ws] = "OPEN"

\* webSocketService.connect: nothing when the socket held is open; otherwise
\* a new WebSocket is created and becomes the one held
Connect ==
    /\ IF HoldsOpen(websocket, sockets)
       THEN /\ lastCall' = Call("connect", "returned", "none")
            /\ UNCHANGED <<websocket, sockets>>
       ELSE /\ Len(sockets) < MaxSockets
            /\ sockets' = Append(sockets, "CONNECTING")
            /\ websocket' = Len(sockets) + 1
            /\ lastCall' = Call("connect", "created", "log")
    /\ UNCHANGED <<store, wire, lastTick>>
    /\ UNCHANGED <<effectVars, upgradeVars, interpVars, targetVars, loopVars>>

\* the handlers connect gives each socket: what they do to the store and to
\* the reference the service holds
onopen(state) == setConnectionStatus(state, TRUE)
onerror(state) == setConnectionStatus(state, FALSE)
onclose(state) == setConnectionStatus(state, FALSE)
oncloseReference(ws) == 0

\* the connection of a socket is established
Open(s) ==
    /\ s \in DOMAIN sockets
    /\ sockets[s] = "CONNECTING"
    /\ sockets' = [sockets EXCEPT ![s] = "OPEN"]
    /\ store' = onopen(store)
    /\ lastCall' = Call("open", ToString(s), "log")
    /\ UNCHANGED <<websocket, wire, lastTick>>
    /\ UNCHANGED <<effectVars, upgradeVars, interpVars, targetVars, loopVars>>

\* the server starts the closing handshake of an open socket; no event
StartClosing(s) ==
    /\ s \in DOMAIN sockets
    /\ sockets[s] = "OPEN"
    /\ sockets' = [sockets EXCEPT ![s] = "CLOSING"]
    /\ lastCall' = Call("closing", ToString(s), "none")
    /\ UNCHANGED <<store, websocket, wire, lastTick>>
    /\ UNCHANGED <<effectVars, upgradeVars, interpVars, targetVars, loopVars>>

\* the connection of a socket is closed: the close event
Close(s) ==
    /\ s \in DOMAIN sockets
    /\ sockets[s] \in {"OPEN", "CLOSING"}
    /\ sockets' = [sockets EXCEPT ![s] = "CLOSED"]
    /\ store' = onclose(store)
    /\ websocket' = oncloseReference(websocket)
    /\ lastCall' = Call("close", ToString(s), "log")
    /\ UNCHANGED <<wire, lastTick>>
    /\ UNCHANGED <<effectVars, upgradeVars, interpVars, targetVars, loopVars>>

\* the connection of a socket fails, while it is being established or
\* later: the error event, then the close event
Fail(s) ==
    /\ s \in DOMAIN sockets
    /\ sockets[s] \in {"CONNECTING", "OPEN", "CLOSING"}
    /\ sockets' = [sockets EXCEPT ![s] = "CLOSED"]
    /\ store' = onclose(onerror(store))
    /\ websocket' = oncloseReference(websocket)
    /\ lastCall' = Call("fail", ToString(s), "error")
    /\ UNCHANGED <<wire, lastTick>>
    /\ UNCHANGED <<effectVars, upgradeVars, interpVars, targetVars, loopVars>>

\* JSON.stringify of a plain object
JSONstringify(message) == Json(message)

\* a mutant of send: the readyState is not checked, the message is handed to
\* whatever socket is held; with none held the call ends in a TypeError
sendUnguarded(ws, socks, message) ==
    IF ws = 0 THEN [outcome |-> "threw", transmit |-> FALSE, log |-> "none"]
    ELSE [outcome |-> "sent", transmit |-> TRUE, log |-> "none"]

\* webSocketService.send: what it does with the message
send(ws, socks, message) ==
    IF HoldsOpen(ws, socks)
    THEN [outcome |-> "sent", transmit |-> TRUE, log |-> "none"]
    ELSE [outcome |-> "dropped", transmit |-> FALSE, log |-> "error"]

\* a caller hands a message to the service
Send(message) ==
    /\ Len(wire) < MaxSent
    /\ wire' = IF send(websocket, sockets, message).transmit
               THEN Append(wire, [socket |-> websocket, data |-> JSONstringify(message)])
               ELSE wire
    /\ lastCall' = Call("send", send(websocket, sockets, message).outcome,
                        send(websocket, sockets, message).log)
    /\ UNCHANGED <<store, websocket, sockets, lastTick>>
    /\ UNCHANGED <<effectVars, upgradeVars, interpVars, targetVars, loopVars>>

\* the upgrade_tower command
UpgradeCommand(tower_id, upgrade_id) ==
    Object([action |-> "upgrade_tower",
            payload |-> Object([tower_id |-> tower_id, upgrade_id |-> upgrade_id])])

\* array.find: the first element with the id, undefined when there is none
Find(array, id) ==
    IF \E i \in DOMAIN array : array[i].id = id
    THEN array[CHOOSE i \in DOMAIN array :
                  array[i].id = id /\ \A j \in 1..(i - 1) : array[j].id # id]
    ELSE undefined

\* a mutant of selectedTower: the first tower of the snapshot
selectedTowerFirst(state) ==
    IF IsObject(state.entities) /\ state.entities.towers # <<>>
    THEN state.entities.towers[1] ELSE undefined

\* UpgradePanel's selector: the tower of the snapshot with the selected id
selectedTower(state) ==
    IF IsObject(state.entities)
    THEN Find(state.entities.towers, state.selectedEntityId)
    ELSE undefined

\* UpgradePanel's findNextUpgrade over the upgrade definitions of the store
findNextUpgrade(upgradeDefinitions, tower, path) ==
    IF tower.type_id \notin DOMAIN upgradeDefinitions THEN NoUpgrade
    ELSE Lookup(upgradeDefinitions[tower.type_id],
                UpgradeKey(path, TierOf(tower, path) + 1))

\* one button of the panel: the upgrade it offers, whether it is enabled
UpgradeButton(upgrade, canAfford) == [upgrade |-> upgrade, canAfford |-> canAfford]

NoPanel == [none |-> TRUE]

\* what UpgradePanel renders from the store: nothing, or the selected tower
\* and a button for the next upgrade of each path that has one
UpgradePanel(state, tower) ==
    IF ~IsObject(tower) \/ ~IsObject(state.gameState) \/ ~IsObject(state.initialState)
    THEN NoPanel
    ELSE IF ~IsObject(Get(state.initialState, "upgrade_definitions")) THEN NoPanel
    ELSE [tower |-> tower,
          buttons |->
            [path \in Paths |->
                UpgradeButton(
                    findNextUpgrade(state.initialState.upgrade_definitions, tower, path),
                    CanAfford(state.gameState.gold,
                              findNextUpgrade(state.initialState.upgrade_definitions,
                                              tower, path)))]]

\* the player clicks a button the panel shows enabled: handlePurchase
PurchaseClick(panel, path) ==
    /\ panel # NoPanel
    /\ panel.buttons[path].upgrade # NoUpgrade
    /\ panel.buttons[path].canAfford
    /\ Send(UpgradeCommand(panel.tower.id, panel.buttons[path].upgrade.id))

ClientIdle ==
    /\ store = InitialStore
    /\ websocket = 0
    /\ sockets = <<>>
    /\ wire = <<>>
    /\ lastTick = NoTick
    /\ lastCall = NoCall

----------------------------------------------------------------------------
(* The authoritative tick loop: commands are received at any time, handled *)
(* one after the other between two ticks, and the world is pushed to the   *)
(* client after each tick.  A mutation takes several steps: an upgrade is  *)
(* paid, its operations are applied to the tower's definition one by one,  *)
(* then the tier is raised; a placement is paid, then the tower is added.  *)

NoPayload == [none |-> TRUE]

\* the game_tick payload: gold and the towers with their tiers and stats;
\* with it, what the loop was doing when the payload was serialized and what
\* each tower had been sold by then
Payload(g, ts, log, ph, busy) ==
    [gold |-> g,
     towers |-> [s \in DOMAIN ts |->
                    [type_id |-> ts[s].type_id,
                     path_a_tier |-> ts[s].path_a_tier,
                     path_b_tier |-> ts[s].path_b_tier,
                     stats |-> TowerStats(ts[s].definition)]],
     sold |-> log, during |-> ph, mutating |-> busy]

\* a mutation in progress: the command, the upgrade it applies (none for a
\* placement), the operation to apply next, the definition when it began
Mutation(req, u, saved) == [req |-> req, upgrade |-> u, next |-> 1, saved |-> saved]

\* the commands the client can send from its latest snapshot: the next tier
\* of a path of a tower it sees, the placement of a second tower of the type
ClientCommands(v) ==
    {Request("raw", id, NextUpgradeId(v.towers[id], path)) :
        id \in DOMAIN v.towers, path \in Paths}
    \cup (IF "t2" \in DOMAIN v.towers THEN {}
          ELSE {Request("place", "t2", v.towers["t1"].type_id)})

\* the tiers of each path the first tower bought before the loop is followed
LoopTiers == 2

\* the mutations begun since the loop started, and the commands that may
\* still begin one
Mutations(ts, log, q, busy) ==
    (Len(log["t1"]) - 2 * LoopTiers)
    + (IF "t2" \in DOMAIN ts THEN 1 + Len(log["t2"]) ELSE 0)
    + Len(q) + Cardinality(busy)

\* the WebSocket layer receives a command, whatever the loop is doing
Receive(req) ==
    /\ Len(queue) < MaxQueued
    /\ Mutations(towers, purchaseLog, queue, inFlight) < MaxMutations
    /\ req.upgrade_id # NoUpgrade.id
    /\ queue' = Append(queue, req)
    /\ UNCHANGED <<phase, inFlight, pushed>>
    /\ UNCHANGED <<effectVars, upgradeVars, interpVars, targetVars, clientVars>>

\* the answer to a command that is refused before anything is changed,
\* "begin" when the mutation can begin
Verdict(g, ts, req) ==
    IF req.source = "place"
    THEN IF req.tower_id \in DOMAIN ts THEN "refused_occupied"
         ELSE IF g < TowerCost(req.upgrade_id) THEN "refused_insufficient_gold"
         ELSE "begin"
    ELSE IF PurchaseUpgrade(g, ts[req.tower_id], req.upgrade_id).result
                \in {"accepted", "application_error"}
         THEN "begin"
         ELSE PurchaseUpgrade(g, ts[req.tower_id], req.upgrade_id).result

\* what the mutation of a command costs and applies
Begun(ts, req) ==
    IF req.source = "place"
    THEN [cost |-> TowerCost(req.upgrade_id), mutation |-> Mutation(req, NoUpgrade, EmptyDoc)]
    ELSE LET u == CHOOSE x \in AllUpgrades(ts[req.tower_id].type_id) : x.id = req.upgrade_id
         IN  [cost |-> u.cost, mutation |-> Mutation(req, u, ts[req.tower_id].definition)]

\* the head of the queue is refused, or paid and begun
Take(req, verdict) ==
    /\ queue' = Tail(queue)
    /\ IF verdict # "begin"
       THEN /\ lastReq' = req
            /\ lastResult' = verdict
            /\ UNCHANGED <<gold, inFlight>>
       ELSE /\ gold' = gold - Begun(towers, req).cost
            /\ inFlight' = inFlight \cup {Begun(towers, req).mutation}
            /\ UNCHANGED <<lastReq, lastResult>>
    /\ UNCHANGED <<towers, view, purchaseLog, catalog, phase, pushed>>
    /\ UNCHANGED <<effectVars, interpVars, targetVars, clientVars>>

\* a mutant of Begin: a command is handled as soon as it is received
BeginEager ==
    /\ queue # <<>>
    /\ Take(Head(queue), Verdict(gold, towers, Head(queue)))

\* the loop, between two ticks and with no mutation in progress, takes the
\* next command
Begin ==
    /\ phase = "commands"
    /\ inFlight = {}
    /\ queue # <<>>
    /\ Take(Head(queue), Verdict(gold, towers, Head(queue)))

\* the next operation of the upgrade is applied to the tower's definition; a
\* failure restores the definition, returns the gold and ends the mutation
Advance(m, r) ==
    /\ IF r.ok
       THEN /\ towers' = [towers EXCEPT ![m.req.tower_id].definition = r.doc]
            /\ inFlight' = (inFlight \ {m}) \cup {[m EXCEPT !.next = @ + 1]}
            /\ UNCHANGED <<gold, lastReq, lastResult>>
       ELSE /\ towers' = [towers EXCEPT ![m.req.tower_id].definition = m.saved]
            /\ inFlight' = inFlight \ {m}
            /\ gold' = gold + m.upgrade.cost
            /\ lastReq' = m.req
            /\ lastResult' = "application_error"
    /\ UNCHANGED <<view, purchaseLog, catalog, queue, phase, pushed>>
    /\ UNCHANGED <<effectVars, interpVars, targetVars, clientVars>>

ApplyNext ==
    \E m \in inFlight :
        /\ m.next <= Len(m.upgrade.effects)
        /\ Advance(m, ApplyOperation(towers[m.req.tower_id].definition,
                                     m.upgrade.effects[m.next]))

\* the mutation ends: the tier is raised, or the tower is added
Finish ==
    \E m \in inFlight :
        /\ m.next > Len(m.upgrade.effects)
        /\ inFlight' = inFlight \ {m}
        /\ lastReq' = m.req
        /\ IF m.req.source = "place"
           THEN /\ towers' = [s \in DOMAIN towers \cup {m.req.tower_id} |->
                                IF s = m.req.tower_id
                                THEN Instantiate(m.req.upgrade_id, catalog[m.req.upgrade_id])
                                ELSE towers[s]]
                /\ purchaseLog' = [s \in DOMAIN towers \cup {m.req.tower_id} |->
                                     IF s = m.req.tower_id THEN <<>> ELSE purchaseLog[s]]
                /\ lastResult' = "placed"
           ELSE /\ towers' = [towers EXCEPT ![m.req.tower_id] =
                                [@ EXCEPT !.path_a_tier =
                                              IF m.upgrade.path = "a" THEN m.upgrade.tier ELSE @,
                                          !.path_b_tier =
                                              IF m.upgrade.path = "b" THEN m.upgrade.tier ELSE @]]
                /\ purchaseLog' = [purchaseLog EXCEPT ![m.req.tower_id] = Append(@, m.upgrade.id)]
                /\ lastResult' = "accepted"
        /\ UNCHANGED <<gold, view, catalog, queue, phase, pushed>>
        /\ UNCHANGED <<effectVars, interpVars, targetVars, clientVars>>

\* no command is being handled: the tick begins
StartTick ==
    /\ phase = "commands"
    /\ inFlight = {}
    /\ phase' = "fire"
    /\ UNCHANGED <<queue, inFlight, pushed>>
    /\ UNCHANGED <<effectVars, upgradeVars, interpVars, targetVars, clientVars>>

\* first step of the tick: the over-time effects fire
FireStep ==
    /\ phase = "fire"
    /\ phase' = "decay"
    /\ clock' = (clock + 1) % TickPeriod
    /\ tickDamage' = OverTime(active, "damage_over_time", (clock + 1) % TickPeriod)
    /\ tickHeal' = OverTime(active, "heal_over_time", (clock + 1) % TickPeriod)
    /\ UNCHANGED <<targetType, effectInPlay, alive, active, lastOp, statBlock, resolveCalls>>
    /\ UNCHANGED <<queue, inFlight, pushed>>
    /\ UNCHANGED <<upgradeVars, interpVars, targetVars, clientVars>>

\* second step of the tick: the durations decay
DecayStep ==
    /\ phase = "decay"
    /\ phase' = "push"
    /\ active' = Decay(active)
    /\ UNCHANGED <<targetType, effectInPlay, alive, clock, tickDamage, tickHeal, lastOp,
                   statBlock, resolveCalls>>
    /\ UNCHANGED <<queue, inFlight, pushed>>
    /\ UNCHANGED <<upgradeVars, interpVars, targetVars, clientVars>>

\* a mutant of Push: the world is serialized whenever the socket is ready
PushAnytime ==
    /\ pushed' = Payload(gold, towers, purchaseLog, phase, inFlight # {})
    /\ view' = Snapshot(gold, towers)
    /\ UNCHANGED <<gold, towers, lastReq, lastResult, purchaseLog, catalog>>
    /\ UNCHANGED <<queue, phase, inFlight>>
    /\ UNCHANGED <<effectVars, interpVars, targetVars, clientVars>>

\* the tick is complete: the world is serialized and pushed to the client
Push ==
    /\ phase = "push"
    /\ phase' = "commands"
    /\ pushed' = Payload(gold, towers, purchaseLog, phase, inFlight # {})
    /\ view' = Snapshot(gold, towers)
    /\ UNCHANGED <<gold, towers, lastReq, lastResult, purchaseLog, catalog>>
    /\ UNCHANGED <<queue, inFlight>>
    /\ UNCHANGED <<effectVars, interpVars, targetVars, clientVars>>

----------------------------------------------------------------------------
(* Replaying a purchase sequence against a second tower of the same type.  *)

\* tower "t1" is sold the next tier of a path
BuyNext(path) ==
    /\ Len(purchaseLog["t1"]) < MaxPurchases
    /\ HandleUpgrade("raw", "t1", NextUpgradeId(towers["t1"], path))
    /\ lastResult' # "refused_unknown_upgrade"
    /\ purchaseLog' = Logged("t1")
    /\ UNCHANGED view
    /\ UNCHANGED <<effectVars, interpVars, targetVars, loopVars, clientVars>>

\* tower "t2" is sold the next upgrade of the sequence "t1" was sold
ReplayNext ==
    /\ Len(purchaseLog["t2"]) < Len(purchaseLog["t1"])
    /\ HandleUpgrade("raw", "t2", purchaseLog["t1"][Len(purchaseLog["t2"]) + 1])
    /\ purchaseLog' = Logged("t2")
    /\ UNCHANGED view
    /\ UNCHANGED <<effectVars, interpVars, targetVars, loopVars, clientVars>>

----------------------------------------------------------------------------
(* Single operations applied to a definition document.                     *)

\* every EffectOperation of the upgrade paths of a tower type
OpsOf(type) ==
    UNION {{u.effects[i] : i \in DOMAIN u.effects} : u \in AllUpgrades(type)}

NoOperation == Op("none", "", <<>>, "", EmptyDoc)

ApplyOne(op) ==
    LET r == ApplyOperation(doc, op)
    IN  /\ opCount < MaxOps
        /\ prevDoc' = doc
        /\ doc' = r.doc
        /\ opOk' = r.ok
        /\ appliedOp' = op
        /\ opCount' = opCount + 1
        /\ UNCHANGED docType
        /\ UNCHANGED <<effectVars, upgradeVars, targetVars, loopVars, clientVars>>

----------------------------------------------------------------------------
(* Specifications. *)

UpgradeIdle ==
    /\ gold = 0
    /\ towers = <<>>
    /\ view = <<>>
    /\ lastReq = NoRequest
    /\ lastResult = "none"
    /\ purchaseLog = <<>>
    /\ catalog = <<>>

LoopIdle ==
    /\ ClientIdle
    /\ queue = <<>>
    /\ phase = "none"
    /\ inFlight = {}
    /\ pushed = NoPayload

TargetIdle ==
    /\ LoopIdle
    /\ persona = "none"
    /\ candidates = <<>>
    /\ selected = Unasked

InterpIdle ==
    /\ TargetIdle
    /\ docType = "none"
    /\ doc = EmptyDoc
    /\ prevDoc = EmptyDoc
    /\ appliedOp = NoOperation
    /\ opOk = TRUE
    /\ opCount = 0

EffectsIdle ==
    /\ targetType = "none"
    /\ effectInPlay = "none"
    /\ alive = FALSE
    /\ active = <<>>
    /\ clock = 0
    /\ tickDamage = 0
    /\ tickHeal = 0
    /\ lastOp = NoOp
    /\ statBlock = NoStats
    /\ resolveCalls = 0

EffectsInit ==
    /\ targetType \in TargetTypes
    /\ effectInPlay \in EffectIds \cup {"none"}
    /\ alive = TRUE
    /\ active = <<>>
    /\ clock = 0
    /\ tickDamage = 0
    /\ tickHeal = 0
    /\ lastOp = NoOp
    /\ statBlock = NoStats
    /\ resolveCalls = 0
    /\ UpgradeIdle
    /\ InterpIdle

EffectsNext ==
    \/ \E p \in Potencies, d \in Durations : ApplyEffect(p, d)
    \/ MortarBlast
    \/ Tick
    \/ DestroyTarget

\* the effect engine: attacks and ticks on one target
SpecEffects == EffectsInit /\ [][EffectsNext]_vars

\* the effect engine with the tick loop running: while the target lives the
\* simulation keeps ticking
SpecEffectsFair == EffectsInit /\ [][EffectsNext]_vars /\ WF_vars(Tick)

\* one placed tower of any upgradable type, the player poor or rich
UpgradeInit ==
    /\ gold \in InitialGold
    /\ \E type \in UpgradableTowers : towers = [s \in {"t1"} |-> NewTower(type)]
    /\ view = Snapshot(gold, towers)
    /\ lastReq = NoRequest
    /\ lastResult = "none"
    /\ purchaseLog = [s \in {"t1"} |-> <<>>]
    /\ catalog = Catalog
    /\ EffectsIdle
    /\ InterpIdle

UpgradeNext ==
    \/ \E path \in Paths : PanelPurchase("t1", path)
    \/ \E id \in RawUpgradeIds(towers["t1"].type_id) : RawPurchase("t1", id)
    \/ GameTick

\* upgrade purchases on one tower, from the panel and from raw messages
SpecUpgrade == UpgradeInit /\ [][UpgradeNext]_vars

\* two fresh towers of the same type, gold for every purchase
ReplayInit ==
    /\ gold = ReplayGold
    /\ \E type \in UpgradableTowers : towers = [s \in {"t1", "t2"} |-> NewTower(type)]
    /\ view = Snapshot(gold, towers)
    /\ lastReq = NoRequest
    /\ lastResult = "none"
    /\ purchaseLog = [s \in {"t1", "t2"} |-> <<>>]
    /\ catalog = Catalog
    /\ EffectsIdle
    /\ InterpIdle

ReplayStep ==
    \/ \E path \in Paths : BuyNext(path)
    \/ ReplayNext

\* a purchase sequence on one tower replayed against a second fresh tower
SpecReplay == ReplayInit /\ [][ReplayStep]_vars

\* one placed tower, a second tower id free, gold for every purchase
PlacementInit ==
    /\ gold = ReplayGold
    /\ \E type \in UpgradableTowers : towers = [s \in {"t1"} |-> NewTower(type)]
    /\ view = Snapshot(gold, towers)
    /\ lastReq = NoRequest
    /\ lastResult = "none"
    /\ purchaseLog = [s \in {"t1"} |-> <<>>]
    /\ catalog = Catalog
    /\ EffectsIdle
    /\ InterpIdle

PlacementNext ==
    \/ \E type \in UpgradableTowers : PlaceTower("t2", type)
    \/ \E id \in {"t1", "t2"}, path \in Paths : UpgradePlaced(id, path)

\* towers placed from the catalog and upgraded, in any order
SpecPlacement == PlacementInit /\ [][PlacementNext]_vars

\* one entity, enemy or tower, with no effect on it
ResolveInit ==
    /\ targetType \in TargetTypes \cup ResolvedTowers
    /\ effectInPlay = "any"
    /\ alive = TRUE
    /\ active = <<>>
    /\ clock = 0
    /\ tickDamage = 0
    /\ tickHeal = 0
    /\ lastOp = NoOp
    /\ statBlock = NoStats
    /\ resolveCalls = 0
    /\ UpgradeIdle
    /\ InterpIdle

ResolveNext ==
    \/ \E e \in StatEffectsOn(targetType), p \in StatPotencies, d \in StatDurations :
            ApplyStatEffect(e, p, d)
    \/ Resolve
    \/ Tick
    \/ DestroyTarget

\* stat effects come and go on one entity whose stats are resolved
SpecResolve == ResolveInit /\ [][ResolveNext]_vars

\* a tower of any persona with any enemies in range
TargetInit ==
    /\ persona \in Personas
    /\ \E keys \in CandidateLists(persona) : candidates = InRange(keys)
    /\ selected = Unasked
    /\ LoopIdle
    /\ EffectsIdle
    /\ UpgradeIdle
    /\ docType = "none"
    /\ doc = EmptyDoc
    /\ prevDoc = EmptyDoc
    /\ appliedOp = NoOperation
    /\ opOk = TRUE
    /\ opCount = 0

TargetNext ==
    \/ Select
    \/ \E keys \in CandidateLists(persona) : Regroup(InRange(keys))

\* target selection over every list of candidates
SpecTargeting == TargetInit /\ [][TargetNext]_vars

\* the tower types whose third tier applies more than one operation
LoopTowers == {"curse_weaver", "archmage"}

\* the orders in which the first tiers of the two paths can be bought
PathOrders ==
    {o \in [1..(2 * LoopTiers) -> Paths] :
        \A path \in Paths : Cardinality({i \in DOMAIN o : o[i] = path}) = LoopTiers}

\* the upgrades bought in an order of the paths, each the next tier of its path
FirstTiers(type, o) ==
    [i \in DOMAIN o |->
        Lookup(UpgradeDefinitions(type),
               UpgradeKey(o[i], Cardinality({j \in 1..i : o[j] = o[i]}))).id]

\* a tower that was sold the upgrades of the log, in order
Upgraded(type, log, a, b) ==
    [type_id |-> type, path_a_tier |-> a, path_b_tier |-> b,
     definition |-> Replayed(TowerTemplate(type), AllUpgrades(type), log)]

\* the loop between two ticks; one tower that has bought the first tiers of
\* both paths in some order, a poisoned enemy on the map
LoopInit ==
    /\ gold = ReplayGold
    /\ \E type \in LoopTowers, o \in PathOrders :
          /\ towers = [s \in {"t1"} |->
                          Upgraded(type, FirstTiers(type, o), LoopTiers, LoopTiers)]
          /\ purchaseLog = [s \in {"t1"} |-> FirstTiers(type, o)]
    /\ view = Snapshot(gold, towers)
    /\ lastReq = NoRequest
    /\ lastResult = "none"
    /\ catalog = Catalog
    /\ queue = <<>>
    /\ phase = "commands"
    /\ inFlight = {}
    /\ pushed = NoPayload
    /\ ClientIdle
    /\ targetType = "grunt"
    /\ effectInPlay = "poison"
    /\ alive = TRUE
    /\ active = <<NewInstance("poison", 1, 2)>>
    /\ clock = 0
    /\ tickDamage = 0
    /\ tickHeal = 0
    /\ lastOp = NoOp
    /\ statBlock = NoStats
    /\ resolveCalls = 0
    /\ persona = "none"
    /\ candidates = <<>>
    /\ selected = Unasked
    /\ docType = "none"
    /\ doc = EmptyDoc
    /\ prevDoc = EmptyDoc
    /\ appliedOp = NoOperation
    /\ opOk = TRUE
    /\ opCount = 0

LoopNext ==
    \/ \E req \in ClientCommands(view) : Receive(req)
    \/ Begin
    \/ ApplyNext
    \/ Finish
    \/ StartTick
    \/ FireStep
    \/ DecayStep
    \/ Push

\* the tick loop with commands arriving at any time
SpecLoop == LoopInit /\ [][LoopNext]_vars

\* everything but the client is idle
ServerIdle ==
    /\ queue = <<>>
    /\ phase = "none"
    /\ inFlight = {}
    /\ pushed = NoPayload
    /\ persona = "none"
    /\ candidates = <<>>
    /\ selected = Unasked
    /\ docType = "none"
    /\ doc = EmptyDoc
    /\ prevDoc = EmptyDoc
    /\ appliedOp = NoOperation
    /\ opOk = TRUE
    /\ opCount = 0
    /\ EffectsIdle
    /\ UpgradeIdle

\* the client as loaded: the store as created, no socket
SocketInit ==
    /\ ClientIdle
    /\ ServerIdle

\* the frames and the commands the service is followed over
SocketFrames == {Json(Object([type |-> "game_tick", data |-> GameTickData(400, 1, <<>>)]))}
SocketCommands == {UpgradeCommand("t1", "mortar_a1")}

SocketNext ==
    \/ Connect
    \/ \E s \in 1..MaxSockets : Open(s)
    \/ \E s \in 1..MaxSockets : StartClosing(s)
    \/ \E s \in 1..MaxSockets : Close(s)
    \/ \E s \in 1..MaxSockets : Fail(s)
    \/ \E s \in 1..MaxSockets, data \in SocketFrames : Message(s, data)
    \/ \E message \in SocketCommands : Send(message)

\* the WebSocket service under connect and send calls and socket events
SpecSocket == SocketInit /\ [][SocketNext]_vars

\* the game ticks the panel is followed over: gold that just pays for the
\* Mortar's first tier of path a and not of path b, gold one short of it,
\* plenty of gold with the Mortar at the last tier of path a and a Commander
\* next to it, and a snapshot without the Mortar, with a Freezer (a type
\* without upgrade definitions in the initial state) under the second id
PanelTicks ==
    {GameTickData(110, 1, <<TowerEntity("t1", "mortar", 0, 0)>>),
     GameTickData(109, 1, <<TowerEntity("t1", "mortar", 0, 0)>>),
     GameTickData(5000, 2, <<TowerEntity("t1", "mortar", 5, 3),
                             TowerEntity("t2", "commander", 2, 1)>>),
     GameTickData(5000, 3, <<TowerEntity("t2", "freezer", 0, 0)>>)}

PanelFrames ==
    {Json(Object([type |-> "game_tick", data |-> d])) : d \in PanelTicks}
    \cup {Json(Object([type |-> "initial_state", data |-> InitialStateData]))}

\* the client after its socket opened
PanelInit ==
    /\ store = setConnectionStatus(InitialStore, TRUE)
    /\ websocket = 1
    /\ sockets = <<"OPEN">>
    /\ wire = <<>>
    /\ lastTick = NoTick
    /\ lastCall = NoCall
    /\ ServerIdle

PanelNext ==
    \/ \E data \in PanelFrames : Message(1, data)
    \/ \E entityId \in EntityIds : SetSelectedEntityId(entityId)
    \/ \E path \in Paths : PurchaseClick(UpgradePanel(store, selectedTower(store)), path)
    \/ StartClosing(1)
    \/ Close(1)

\* the upgrade panel under game ticks, selections and clicks
SpecPanel == PanelInit /\ [][PanelNext]_vars

\* the client after its socket opened, the store as created otherwise
StoreInit ==
    /\ store = setConnectionStatus(InitialStore, TRUE)
    /\ websocket = 1
    /\ sockets = <<"OPEN">>
    /\ wire = <<>>
    /\ lastTick = NoTick
    /\ lastCall = NoCall
    /\ ServerIdle

StoreNext ==
    \/ \E data \in StoreFrames : Message(1, data)
    \/ \E towerId \in TowerTypeIds \cup {nullId} : SelectTowerToBuild(towerId)
    \/ \E entityId \in EntityIds \cup {nullId} : SetSelectedEntityId(entityId)
    \/ ClearSelections
    \/ HandlePlayClick
    \/ \E towerId \in TowerTypeIds : HandleTowerSelect(towerId)

\* the store under inbound frames and the player's selections
SpecStore == StoreInit /\ [][StoreNext]_vars

InterpInit ==
    /\ docType \in UpgradableTowers
    /\ doc = TowerTemplate(docType)
    /\ prevDoc = doc
    /\ appliedOp = NoOperation
    /\ opOk = TRUE
    /\ opCount = 0
    /\ EffectsIdle
    /\ UpgradeIdle
    /\ TargetIdle

InterpNext == \E op \in OpsOf(docType) : ApplyOne(op)

\* single operations of a tower's upgrade paths applied in any order
SpecInterp == InterpInit /\ [][InterpNext]_vars

Init == PanelInit \/ SocketInit \/ StoreInit \/ EffectsInit \/ ResolveInit \/ TargetInit \/ LoopInit \/ UpgradeInit \/ ReplayInit \/ PlacementInit \/ InterpInit

Next == PanelNext \/ SocketNext \/ StoreNext \/ EffectsNext \/ ResolveNext \/ TargetNext \/ LoopNext \/ UpgradeNext \/ ReplayStep \/ PlacementNext \/ InterpNext

Spec == Init /\ [][Next]_vars

----------------------------------------------------------------------------
(* Properties of the Status Effect Registry. *)

RefreshEffects ==
    {"slow", "stun", "fire", "vulnerability", "elemental_vulnerability",
     "damage_boost", "range_boost", "fire_rate_boost", "effect_potency_boost",
     "aura_size_boost"}

IntensityEffects == {"poison", "bleed", "regeneration"}

PotencyEffects == {"armor_break", "armor_boost"}

SlowStunImmune == {"guardian", "hyperion_vanguard"}

PotencySum(list) == SumSeq([i \in DOMAIN list |-> list[i].potency])

\* C1: refresh stacking. A non-immune target never holds more than one
\* instance of a refresh effect, and right after an application of such an
\* effect the instance carries exactly the applied potency and duration
\* (overwritten and reset, never summed), also when the application comes
\* from a Mortar blast.
C1_RefreshStacking ==
    \A e \in RefreshEffects :
        /\ Len(InstancesOf(active, e)) <= 1
        /\ (lastOp.kind = "apply" /\ lastOp.effect_id = e
                /\ ~(targetType \in SlowStunImmune /\ e \in {"slow", "stun"}))
            => InstancesOf(active, e)
                 = << [effect_id |-> e, potency |-> lastOp.potency,
                       remaining_duration |-> lastOp.duration, stacks |-> 1] >>
        /\ (lastOp.kind = "blast" /\ e = "slow" /\ targetType = "grunt")
            => InstancesOf(active, e)
                 = << [effect_id |-> "slow", potency |-> 30,
                       remaining_duration |-> 3, stacks |-> 1] >>

\* C1 witness: slow re-applied to a grunt that already carried a slow
\* instance; the one instance has the values of the re-application.
C1_Witness ==
    /\ targetType = "grunt"
    /\ lastOp.kind = "apply" /\ lastOp.effect_id = "slow" /\ lastOp.existed
    /\ lastOp.potency = 1 /\ lastOp.duration = 2
    /\ Len(active) = 1 /\ active[1].potency = 1 /\ active[1].remaining_duration = 2

\* C2: stack_intensity stacking. Every application to a non-immune target
\* appends one new instance and leaves the others alone (N applications, N
\* instances); a tick decays every instance on its own, and the damage (heal)
\* of a tick is the sum of the potencies of the instances whose effect fires.
C2_StackIntensity ==
    [][ /\ (lastOp'.kind = "apply" /\ lastOp'.effect_id \in IntensityEffects)
            => active' = Append(active,
                                [effect_id |-> lastOp'.effect_id,
                                 potency |-> lastOp'.potency,
                                 remaining_duration |-> lastOp'.duration,
                                 stacks |-> 1])
        /\ lastOp'.kind = "tick"
            => /\ \A e \in IntensityEffects :
                    LET old == InstancesOf(active, e)
                        kept == SelectSeq(old, LAMBDA x : x.remaining_duration > 1)
                    IN  InstancesOf(active', e)
                          = [i \in DOMAIN kept |->
                                [kept[i] EXCEPT !.remaining_duration = @ - 1]]
               /\ tickDamage' = PotencySum(InstancesOf(active, "poison"))
                                + PotencySum(InstancesOf(active, "fire"))
                                + (IF clock' = 0
                                   THEN PotencySum(InstancesOf(active, "bleed"))
                                   ELSE 0)
               /\ tickHeal' = (IF clock' = 0
                               THEN PotencySum(InstancesOf(active, "regeneration"))
                               ELSE 0)
      ]_vars

\* C2 witness: three poison instances (potencies 2, 2, 1) ticked at once for
\* 5 damage; the short-lived one expired, the two others live on.
C2_Witness ==
    /\ effectInPlay = "poison"
    /\ lastOp.kind = "tick"
    /\ tickDamage = 5
    /\ Len(active) = 2

\* C3: stack_potency stacking. A target holds at most one instance of such an
\* effect; a re-application adds its potency to the instance and sets the
\* remaining duration to the larger of the remaining and the applied
\* duration, so it never shortens it.
C3_StackPotency ==
    /\ [](\A e \in PotencyEffects : Len(InstancesOf(active, e)) <= 1)
    /\ [][ (lastOp'.kind = "apply" /\ lastOp'.effect_id \in PotencyEffects
               /\ HasInstance(active, lastOp'.effect_id))
            => LET old == InstancesOf(active, lastOp'.effect_id)[1]
                   new == InstancesOf(active', lastOp'.effect_id)[1]
               IN  /\ Len(active') = Len(active)
                   /\ new.potency = old.potency + lastOp'.potency
                   /\ new.remaining_duration
                        = Max(old.remaining_duration, lastOp'.duration)
                   /\ new.remaining_duration >= old.remaining_duration
          ]_vars

\* C3 witness: armor_break applied (potency 1, duration 1) onto an instance
\* that keeps its longer remaining duration 2 and now has potency 3.
C3_Witness ==
    /\ lastOp.kind = "apply" /\ lastOp.effect_id = "armor_break" /\ lastOp.existed
    /\ lastOp.potency = 1 /\ lastOp.duration = 1
    /\ Len(active) = 1
    /\ active[1].potency = 3 /\ active[1].remaining_duration = 2

C5_ImmunityPerEffect ==
    [][ targetType = "guardian"
        => /\ lastOp'.kind = "blast"
               => /\ active' = Append(active,
                                      [effect_id |-> "bleed", potency |-> 25,
                                       remaining_duration |-> 10, stacks |-> 1])
                  /\ ~HasInstance(active', "slow")
           /\ (lastOp'.kind = "apply" /\ lastOp'.effect_id = "bleed")
               => /\ Len(active') = Len(active) + 1
                  /\ lastOp'.outcome = "applied"
           /\ (lastOp'.kind = "tick" /\ clock' = 0)
               => tickDamage' >= PotencySum(InstancesOf(active, "bleed"))
      ]_vars

\* C5 witness: a guardian under Mortar fire carries bleed and no slow, and
\* the last tick dealt the damage of two bleed stacks.
C5_Witness ==
    /\ targetType = "guardian"
    /\ effectInPlay = "none"
    /\ lastOp.kind = "tick"
    /\ tickDamage = 50
    /\ HasInstance(active, "bleed")
    /\ ~HasInstance(active, "slow")

----------------------------------------------------------------------------
(* Properties of upgrade purchases and of the interpreter. *)

\* the results with which the server refuses a request
Refusals ==
    {"refused_unknown_upgrade", "refused_path_maxed", "refused_out_of_order",
     "refused_insufficient_gold"}

\* the step handled an upgrade_tower request (a snapshot push changes view)
RequestHandled == view' = view

\* the upgrade the handled request named, if the tower's type has it
Requested == {u \in AllUpgrades(towers["t1"].type_id) : u.id = lastReq'.upgrade_id}

\* C6: upgrade-path monotonicity.  A request for tier k of a path is
\* accepted only when the tower's tier on that path is exactly k-1, and then
\* the tier becomes k and the upgrade's effect list is applied once to the
\* definition; a request that skips or repeats a tier leaves tower and gold
\* as they were; in every step each path's tier stays or grows by one, and
\* it grows only with an accepted request; the panel requests, for a path,
\* the upgrade one tier above the tier its snapshot shows.
C6_PathMonotonicity ==
    [][ /\ \A p \in Paths :
             TierOf(towers'["t1"], p) \in
                {TierOf(towers["t1"], p), TierOf(towers["t1"], p) + 1}
        /\ towers' # towers => lastResult' = "accepted"
        /\ (RequestHandled /\ lastResult' = "accepted") =>
             \E u \in Requested :
                /\ TierOf(towers["t1"], u.path) = u.tier - 1
                /\ TierOf(towers'["t1"], u.path) = u.tier
                /\ \A p \in Paths \ {u.path} :
                      TierOf(towers'["t1"], p) = TierOf(towers["t1"], p)
                /\ towers'["t1"].definition =
                      ApplyEffects(towers["t1"].definition, u.effects).doc
        /\ \A u \in Requested :
             (RequestHandled /\ u.tier # TierOf(towers["t1"], u.path) + 1) =>
                /\ lastResult' \in Refusals
                /\ towers' = towers
                /\ gold' = gold
        /\ (RequestHandled /\ lastReq'.source = "panel") =>
             \E u \in Requested :
                u.tier = TierOf(view.towers["t1"], u.path) + 1
      ]_vars

\* a Mortar two tiers up path a was asked for tier 4 of it and refused
C6_Witness ==
    /\ towers # <<>>
    /\ "t1" \in DOMAIN towers
    /\ towers["t1"].type_id = "mortar"
    /\ towers["t1"].path_a_tier = 2
    /\ lastReq.upgrade_id = "mortar_a4"
    /\ lastResult = "refused_out_of_order"

\* C7: a request the player's gold does not pay for, or on a path already
\* at its last tier, is answered with a refusal and changes neither gold nor
\* the tower (tiers, definition); every request gets an answer and the
\* server goes on handling requests; gold is never negative; the panel sends
\* a request only for an upgrade its snapshot's gold pays for.
C7_RefusalNoMutation ==
    /\ [](gold >= 0)
    /\ [](lastResult \in Refusals \cup {"none", "accepted", "application_error"})
    /\ [][ /\ (RequestHandled /\ lastResult' \in Refusals) =>
                (gold' = gold /\ towers' = towers)
           /\ \A u \in Requested :
                (RequestHandled /\ TierOf(towers["t1"], u.path) = 5) =>
                    (lastResult' = "refused_path_maxed" /\ gold' = gold /\ towers' = towers)
           /\ \A u \in Requested :
                (RequestHandled /\ gold < u.cost) =>
                    (lastResult' \in Refusals /\ gold' = gold /\ towers' = towers)
           /\ (RequestHandled /\ lastReq'.source = "panel") =>
                \E u \in Requested : view.gold >= u.cost
         ]_vars

\* the panel, on a stale snapshot, asked for an upgrade the gold left does
\* not pay for, and the server refused
C7_Witness ==
    /\ lastReq.source = "panel"
    /\ lastResult = "refused_insufficient_gold"
    /\ gold < view.gold
    /\ gold >= 0

\* C8: on the shipped configs, whatever the interleaving of the two paths,
\* no purchase of the next tier of a path fails in the interpreter.
C8_InterpreterTotality == lastResult # "application_error"

AddAuraRange40 ==
    Op("modify_nested", "", <<"auras", "[", "0", "]", ".", "range">>, "add",
       DocOf({<<<<>>, N(40, 1)>>}))

Aura0Range == <<"auras", "0", "range">>

\* C10: modify_nested add on auras[0].range changes that field and nothing
\* else: the field grows by the amount (100 becomes 140, as on the fresh
\* Arch-Mage), and every other field of auras[0], every other aura and every
\* other section keeps its place and value; any successful modify_nested
\* add changes at most one field and adds or removes none.
C10_NestedAddFrame ==
    /\ (opCount > 0 /\ opOk /\ appliedOp = AddAuraRange40) =>
          /\ IsNumber(prevDoc, Aura0Range)
          /\ doc[Aura0Range] = LeafAdd(prevDoc[Aura0Range], N(40, 1))
          /\ prevDoc[Aura0Range] = N(100, 1) => doc[Aura0Range] = N(140, 1)
          /\ DOMAIN doc = DOMAIN prevDoc
          /\ \A q \in DOMAIN doc \ {Aura0Range} : doc[q] = prevDoc[q]
    /\ (opCount = 1 /\ docType = "archmage" /\ appliedOp = AddAuraRange40) =>
          /\ opOk
          /\ doc[Aura0Range] = N(140, 1)
    /\ (opCount > 0 /\ opOk /\ appliedOp.type = "modify_nested" /\ appliedOp.operation = "add") =>
          /\ DOMAIN doc = DOMAIN prevDoc
          /\ Cardinality({q \in DOMAIN doc : doc[q] # prevDoc[q]}) <= 1

\* an Arch-Mage with a second aura had 40 added to the range 100 of its
\* first aura
C10_Witness ==
    /\ docType = "archmage"
    /\ opCount = 2
    /\ opOk
    /\ appliedOp = AddAuraRange40
    /\ prevDoc[Aura0Range] = N(100, 1)
    /\ doc[Aura0Range] = N(140, 1)
    /\ <<"auras", "1", "range">> \in DOMAIN doc
    /\ doc[<<"auras", "0", "target_type">>] = S("TOWER")

\* the first operation of archmage_b5:
\* {path: "attack.data.damage", operation: "add", amount: 35}
AddAttackDamage35 ==
    Op("modify_nested", "", <<"attack", ".", "data", ".", "damage">>, "add",
       DocOf({<<<<>>, N(35, 1)>>}))

\* the fields of prev outside the node at path are fields of d, unchanged
KeepsOutside(d, prev, path) ==
    \A q \in DOMAIN prev :
        ~IsPrefix(path, q) => (q \in DOMAIN d /\ d[q] = prev[q])

\* C11: the path creation rule of modify_nested.  set, add_effect and
\* add_aura never fail: they put their value at the path, creating the
\* nodes on the way (set on "attack" gives the Arch-Mage, which has no
\* attack block, one), and keep what lies outside it.  add and multiply
\* succeed exactly when the addressed field is an existing number;
\* otherwise they fail, and the definition after the failure is the
\* definition before it (attack.data.damage add 35 on the fresh Arch-Mage).
C11_PathCreation ==
    /\ (opCount > 0 /\ appliedOp.type = "modify_nested") =>
          /\ appliedOp.operation \in {"set", "add_effect", "add_aura"} => opOk
          /\ appliedOp.operation = "set" =>
                /\ SubDoc(doc, ParsePath(appliedOp.path)) = appliedOp.value
                /\ KeepsOutside(doc, prevDoc, ParsePath(appliedOp.path))
          /\ appliedOp.operation = "add_effect" =>
                /\ \A r \in DOMAIN appliedOp.value :
                      doc[ParsePath(appliedOp.path) \o r] = appliedOp.value[r]
                /\ \A q \in DOMAIN prevDoc :
                      q \in DOMAIN doc \/
                      \E r \in DOMAIN appliedOp.value :
                         IsPrefix(ParsePath(appliedOp.path) \o <<r[1]>>, q)
          /\ appliedOp.operation = "add_aura" =>
                /\ SubDoc(doc, ParsePath(appliedOp.path) \o
                               <<ToString(ArrayLen(prevDoc, ParsePath(appliedOp.path)))>>)
                      = appliedOp.value
                /\ \A q \in DOMAIN prevDoc : q \in DOMAIN doc /\ doc[q] = prevDoc[q]
          /\ appliedOp.operation \in {"add", "multiply"} =>
                /\ opOk <=> IsNumber(prevDoc, ParsePath(appliedOp.path))
                /\ ~opOk => doc = prevDoc
    /\ (opCount = 1 /\ docType = "archmage" /\ appliedOp = AddAttackDamage35) =>
          /\ ~opOk
          /\ doc = prevDoc
          /\ ~HasNode(doc, <<"attack">>)
    /\ (opCount = 1 /\ docType = "archmage" /\ appliedOp.type = "modify_nested"
        /\ appliedOp.operation = "set" /\ appliedOp.path = <<"attack">>) =>
          /\ ~HasNode(prevDoc, <<"attack">>)
          /\ opOk
          /\ IsNumber(doc, <<"attack", "data", "damage">>)

\* the fresh Arch-Mage was asked to add 35 to the damage of the attack it
\* does not have: the operation failed and the definition is as before
C11_Witness ==
    /\ docType = "archmage"
    /\ opCount = 1
    /\ appliedOp = AddAttackDamage35
    /\ ~opOk
    /\ doc = prevDoc
    /\ ~HasNode(doc, <<"attack">>)

\* C12: template isolation.  The templates of the catalog are at all times
\* the ones loaded from the tower type catalog; a request about one tower
\* (an upgrade, a placement) leaves every other placed tower as it was; a
\* tower placed at any time, also after towers of its type were upgraded,
\* starts at tier 0 on both paths with the base definition of its type.
C12_TemplateIsolation ==
    /\ [](catalog = [type \in UpgradableTowers |-> TowerTemplate(type)])
    /\ [][ /\ \A id \in DOMAIN towers :
                lastReq'.tower_id # id =>
                    (id \in DOMAIN towers' /\ towers'[id] = towers[id])
           /\ \A id \in DOMAIN towers' \ DOMAIN towers :
                /\ towers'[id].definition = TowerTemplate(towers'[id].type_id)
                /\ towers'[id].path_a_tier = 0
                /\ towers'[id].path_b_tier = 0
         ]_vars

\* a second Commander was placed after the first one had bought two tiers,
\* one of which widened its aura; the second has the base aura range and
\* has bought a tier of its own since, the first is as it was
C12_Witness ==
    /\ DOMAIN towers = {"t1", "t2"}
    /\ towers["t1"].type_id = "commander"
    /\ towers["t2"].type_id = "commander"
    /\ towers["t1"].path_a_tier = 2
    /\ towers["t1"].definition # TowerTemplate("commander")
    /\ towers["t2"].path_b_tier = 1
    /\ towers["t2"].path_a_tier = 0
    /\ lastReq.tower_id = "t2"
    /\ lastResult = "accepted"
    /\ catalog["commander"] = TowerTemplate("commander")

\* the instances of a list with those at positions i and j exchanged
Swap(list, i, j) ==
    [k \in DOMAIN list |->
        IF k = i THEN list[j] ELSE IF k = j THEN list[i] ELSE list[k]]

\* the potency of the instance of e in the list, dflt when there is none
PotencyOr(list, e, dflt) ==
    IF HasInstance(list, e) THEN InstancesOf(list, e)[1].potency ELSE dflt

\* the multiplicative tower buff of the catalog on each tower stat
BoostOf(stat) ==
    CASE stat = "damage" -> "damage_boost"
      [] stat = "range" -> "range_boost"
      [] stat = "fire_rate" -> "fire_rate_boost"

ClampedStats == {"speed", "fire_rate", "armor"}

\* C14: non-negative resolved stats.  Whatever effects an entity holds, the
\* speed, armor and fire_rate of its StatBlock are >= 0, in the block a call
\* returned as in the one a call would return; an enemy whose accumulated
\* armor_break is at least its base armor plus its armor_boost has armor 0.
C14_NonNegativeStats ==
    /\ \A stat \in DOMAIN Resolved(targetType, active) \cap ClampedStats :
            RatNonNeg(Resolved(targetType, active)[stat])
    /\ resolveCalls > 0 =>
            \A stat \in DOMAIN statBlock \cap ClampedStats : RatNonNeg(statBlock[stat])
    /\ (resolveCalls > 0 /\ targetType \in TargetTypes
          /\ PotencyOr(active, "armor_break", 0)
               >= BaseStats(targetType).armor + PotencyOr(active, "armor_boost", 0))
        => statBlock.armor = Rat(0, 1)

\* C14 witness: a guardian (armor 30) holds one armor_break instance of two
\* or more merged applications whose potency exceeds its armor; the armor of
\* the StatBlock returned is 0
C14_Witness ==
    /\ targetType = "guardian"
    /\ resolveCalls > 0
    /\ Len(active) = 1
    /\ active[1].effect_id = "armor_break"
    /\ active[1].stacks >= 2
    /\ active[1].potency > BaseStats("guardian").armor
    /\ statBlock.armor = Rat(0, 1)

\* a step that is a call of resolveEffectiveStats
ResolveCalled == resolveCalls' = resolveCalls + 1

Outliving(list) == SelectSeq(list, LAMBDA x : x.remaining_duration > 1)

\* C16: effect expiry.  No instance has a remaining duration <= 0 and a
\* destroyed target holds no instance; a tick removes exactly the instances
\* that reach zero and ages the others by one tick, the destruction of the
\* target removes them all; and when from some moment on no effect is applied
\* any more, the ticks remove every instance for good.
C16_EffectExpiry ==
    /\ [](/\ \A i \in DOMAIN active : active[i].remaining_duration > 0
          /\ ~alive => active = <<>>)
    /\ [][ /\ lastOp'.kind = "tick" =>
                /\ Len(active') = Len(Outliving(active))
                /\ \A i \in DOMAIN active' :
                      active'[i] = [Outliving(active)[i] EXCEPT
                                        !.remaining_duration = @ - 1]
           /\ lastOp'.kind = "destroy" => (~alive' /\ active' = <<>>)
         ]_vars
    /\ (<>[](lastOp.kind \notin {"apply", "blast"})) => <>[](active = <<>>)

\* C16 witness: the last poison instance on a living target dealt its damage
\* on the tick that removed it
C16_Witness ==
    /\ alive
    /\ effectInPlay = "poison"
    /\ lastOp.kind = "tick"
    /\ tickDamage > 0
    /\ active = <<>>

\* C17: target selection.  selectTarget returns null exactly when no enemy
\* is in range.  Otherwise it returns a candidate that no candidate goes
\* before under the persona's priority function, and among the candidates
\* with that sort key the earliest spawned.  The Soldier (sort_by_closest)
\* gets a candidate of minimum distance, the earliest spawned of the closest:
\* of distances <<120, 45, 200>> the second candidate.
C17_TargetSelection ==
    selected # Unasked =>
        /\ selected = Null <=> candidates = <<>>
        /\ candidates # <<>> =>
            /\ \E i \in DOMAIN candidates : candidates[i] = selected
            /\ \A i \in DOMAIN candidates :
                /\ ~Before(PriorityFunction(persona), candidates[i], selected)
                /\ candidates[i].key = selected.key => selected.spawn <= candidates[i].spawn
        /\ (persona = "SOLDIER" /\ candidates # <<>>) =>
            /\ \A i \in DOMAIN candidates : selected.key <= candidates[i].key
            /\ \A i \in DOMAIN candidates :
                  candidates[i].key = selected.key => selected.spawn <= candidates[i].spawn
        /\ (persona = "SOLDIER" /\ candidates = InRange(<<120, 45, 200>>))
                => selected = Candidate(2, 45)

\* C17 witness: the Soldier chose among enemies at distances 45, 120, 45 and
\* got the first spawned of the two closest
C17_Witness ==
    /\ persona = "SOLDIER"
    /\ candidates = InRange(<<45, 120, 45>>)
    /\ selected = Candidate(1, 45)

BlastRadius == AttackData \o <<"blast_radius">>

\* the multiply_blast_radius values of the upgrade an accepted request named
BlastRadiusValues(type, upgrade_id) ==
    UNION {{u.effects[i].value[<<>>] :
                i \in {j \in DOMAIN u.effects : u.effects[j].type = "multiply_blast_radius"}}
           : u \in {x \in AllUpgrades(type) : x.id = upgrade_id}}

\* C18: multiply_blast_radius sets or multiplies.  An accepted upgrade with a
\* multiply_blast_radius of value v leaves blast_radius = v when the tower
\* had no blast_radius or blast_radius 0, and blast_radius times v otherwise.
\* A Curse Weaver, whose base definition has no blast_radius, has none below
\* tier 3 of path b, blast_radius 50 at tiers 3 and 4 (after curse_b3) and 75
\* at tier 5 (after curse_b5), whatever it bought on path a.
C18_BlastRadius ==
    /\ [](\A s \in DOMAIN towers :
            towers[s].type_id = "curse_weaver" =>
                /\ towers[s].path_b_tier < 3 => ~HasNode(towers[s].definition, BlastRadius)
                /\ towers[s].path_b_tier \in {3, 4}
                        => /\ IsNumber(towers[s].definition, BlastRadius)
                           /\ towers[s].definition[BlastRadius] = N(50, 1)
                /\ towers[s].path_b_tier = 5
                        => /\ IsNumber(towers[s].definition, BlastRadius)
                           /\ towers[s].definition[BlastRadius] = N(75, 1))
    /\ [][ (lastResult' = "accepted" /\ towers' # towers) =>
             LET s == lastReq'.tower_id
                 old == towers[s].definition
                 new == towers'[s].definition
             IN  \A v \in BlastRadiusValues(towers[s].type_id, lastReq'.upgrade_id) :
                    /\ IsNumber(new, BlastRadius)
                    /\ new[BlastRadius] =
                         IF ~IsNumber(old, BlastRadius) \/ old[BlastRadius].n = 0
                         THEN v
                         ELSE NumLeaf(RatMul(old[BlastRadius], v))
         ]_vars

\* C18 witness: a Curse Weaver bought path b in order up to curse_b5 and has
\* blast_radius 75
C18_Witness ==
    /\ towers["t1"].type_id = "curse_weaver"
    /\ purchaseLog["t1"] = <<"curse_b1", "curse_b2", "curse_b3", "curse_b4", "curse_b5">>
    /\ lastReq.upgrade_id = "curse_b5"
    /\ lastResult = "accepted"
    /\ towers["t1"].definition[BlastRadius] = N(75, 1)

\* C19: effect-id referential integrity.  Every effect id a tower definition
\* refers to, as shipped and after any upgrades, every effect id in the value
\* or the path of an upgrade operation, every immunity of an enemy or a boss
\* and every effect id of the freezer and energy_beacon files is a key of the
\* status-effect catalog, and applying it is never an UnknownEffectError.
C19_EffectIdIntegrity ==
    /\ \A s \in DOMAIN towers :
        /\ \A e \in EffectRefs(towers[s].definition) :
                e \in EffectIds /\ ApplyOutcome({}, e) # "UnknownEffectError"
        /\ \A op \in OpsOf(towers[s].type_id) :
                \A e \in OpEffectRefs(op) :
                    e \in EffectIds /\ ApplyOutcome({}, e) # "UnknownEffectError"
    /\ \A t \in TargetTypes : Immunities(t) \subseteq EffectIds
    /\ \A e \in OtherTowerEffects \cup BeaconUpgradeEffects \cup FreezerUpgradeEffects
                  \cup BossImmunities \cup {MortarBlastEffects[i].id : i \in DOMAIN MortarBlastEffects} :
            e \in EffectIds /\ ApplyOutcome({}, e) # "UnknownEffectError"

\* C19 witness: a Curse Weaver that bought curse_a4 refers to armor_break
\* next to the effects it had
C19_Witness ==
    /\ towers["t1"].type_id = "curse_weaver"
    /\ lastReq.upgrade_id = "curse_a4"
    /\ lastResult = "accepted"
    /\ {"armor_break", "elemental_vulnerability"} \subseteq EffectRefs(towers["t1"].definition)
    /\ "armor_break" \notin EffectRefs(TowerTemplate("curse_weaver"))

\* what a tower paid for the upgrades of the log from the from-th on
Spent(type, log, from) ==
    SumSeq([i \in 1..(Len(log) - from + 1) |->
               (CHOOSE u \in AllUpgrades(type) : u.id = log[from + i - 1]).cost])

\* the payload shows a world in which every tower has all of the upgrades it
\* was sold and nothing else, at the tiers and for the gold that go with them
Whole(p) ==
    /\ \A s \in DOMAIN p.towers :
        /\ p.towers[s].stats =
               TowerStats(Replayed(TowerTemplate(p.towers[s].type_id),
                                   AllUpgrades(p.towers[s].type_id), p.sold[s]))
        /\ p.towers[s].path_a_tier + p.towers[s].path_b_tier = Len(p.sold[s])
    /\ p.gold = ReplayGold
                 - Spent(p.towers["t1"].type_id, p.sold["t1"], 2 * LoopTiers + 1)
                 - (IF "t2" \in DOMAIN p.towers
                    THEN TowerCost(p.towers["t2"].type_id)
                         + Spent(p.towers["t2"].type_id, p.sold["t2"], 1)
                    ELSE 0)

\* C20: mutations are serialized through the tick loop.  A mutation is in
\* progress only between two ticks, and never two at a time, on the same
\* definition or on any; towers, gold and purchase logs change only between
\* two ticks, the steps of a tick run only while no mutation is in progress;
\* every game_tick payload was serialized after the last step of a tick with
\* no mutation in progress, and shows every tower with all the operations of
\* every upgrade it was sold and of no other.
C20_SerializedMutations ==
    /\ [](/\ Cardinality(inFlight) <= 1
          /\ \A m1 \in inFlight : \A m2 \in inFlight :
                m1.req.tower_id = m2.req.tower_id => m1 = m2
          /\ inFlight # {} => phase = "commands"
          /\ pushed # NoPayload =>
                /\ pushed.during = "push"
                /\ ~pushed.mutating
                /\ Whole(pushed))
    /\ [][ /\ <<gold, towers, purchaseLog>>' # <<gold, towers, purchaseLog>> =>
                (phase = "commands" /\ phase' = "commands")
           /\ <<active, clock, tickDamage, tickHeal>>' # <<active, clock, tickDamage, tickHeal>> =>
                (inFlight = {} /\ inFlight' = {})
           /\ pushed' # pushed => (inFlight = {} /\ phase = "push")
         ]_vars

\* after a tick was pushed, the first of the two operations of an upgrade is
\* applied to the tower's definition and the second is not; a further
\* command waits in the queue; the payload shows the tower before the upgrade
C20_Witness ==
    /\ pushed # NoPayload
    /\ queue # <<>>
    /\ \E m \in inFlight :
        /\ Len(m.upgrade.effects) >= 2
        /\ m.next = 2
        /\ towers[m.req.tower_id].definition # m.saved
        /\ pushed.towers[m.req.tower_id].stats = TowerStats(m.saved)
    /\ active # <<NewInstance("poison", 1, 2)>>

\* C21: the client renders the latest snapshot received.  Before the first
\* game tick the store's gameState and entities are both null; from then on
\* they are the game_state and the entities of one and the same game_tick
\* message, the most recent one received, whatever other frames arrived
\* before or after it.
C21_LatestSnapshot ==
    /\ lastTick = NoTick => (store.gameState = null /\ store.entities = null)
    /\ lastTick # NoTick =>
          /\ store.gameState = Get(lastTick, "game_state")
          /\ store.entities = Get(lastTick, "entities")

\* the tick of wave 2 with its two towers is in the store; the frame that
\* arrived after it was discarded with an error
C21_Witness ==
    /\ IsObject(store.gameState) /\ IsObject(store.entities)
    /\ store.gameState.wave = 2
    /\ Len(store.entities.towers) = 2
    /\ lastCall = Call("message", "none", "error")

\* C22: selection mutual exclusion.  The store never holds a tower type to
\* build and a selected entity at the same time.
C22_SelectionExclusion ==
    ~(store.selectedTowerToBuild # nullId /\ store.selectedEntityId # nullId)

\* an entity was selected by setSelectedEntityId and no tower type is
C22_Witness ==
    /\ lastCall = Call("setSelectedEntityId", "t2", "none")
    /\ store.selectedEntityId = "t2"
    /\ store.selectedTowerToBuild = nullId
    /\ IsObject(store.initialState)

\* the store fields a step leaves as they were
Unchanged(fields, before, after) == \A k \in fields : after[k] = before[k]

\* C26: inbound message handling leaves unrelated state untouched.  A frame
\* that is not JSON, or whose type is neither initial_state nor game_tick,
\* changes no store field; an initial_state message changes initialState
\* only; a game_tick message changes gameState and entities only; no frame
\* changes a selection, isConnected or activeScreen.
C26_MessageFrame ==
    [][ \A data \in StoreFrames :
          Message(1, data) =>
            /\ Unchanged({"selectedTowerToBuild", "selectedEntityId", "isConnected",
                          "activeScreen"}, store, store')
            /\ Handling(data).call = "none" => store' = store
            /\ Handling(data).call = "setInitialState" =>
                  Unchanged(DOMAIN store \ {"initialState"}, store, store')
            /\ Handling(data).call = "setGameTickState" =>
                  Unchanged(DOMAIN store \ {"gameState", "entities"}, store, store')
      ]_vars

\* a game tick arrived in game while a tower was selected
C26_Witness ==
    /\ lastCall = Call("message", "setGameTickState", "none")
    /\ store.selectedEntityId = "t1"
    /\ store.activeScreen = "InGame"
    /\ store.isConnected
    /\ IsObject(store.initialState)
    /\ IsObject(store.entities)

\* C30: selection toggling.  setSelectedEntityId with the id that is selected
\* deselects it and with any other id selects that one, so two calls in a
\* row with an id that was not selected leave no entity selected; a click on
\* the build-bar button of the selected tower type leaves no type selected,
\* a click on another button selects that type.
C30_SelectionToggle ==
    /\ [](\A id \in EntityIds \cup {nullId} :
            store.selectedEntityId # id =>
                setSelectedEntityId(setSelectedEntityId(store, id), id).selectedEntityId
                    = nullId)
    /\ [][ /\ \A id \in EntityIds \cup {nullId} :
                SetSelectedEntityId(id) =>
                    store'.selectedEntityId =
                        IF store.selectedEntityId = id THEN nullId ELSE id
           /\ \A type \in TowerTypeIds :
                HandleTowerSelect(type) =>
                    store'.selectedTowerToBuild =
                        IF store.selectedTowerToBuild = type THEN nullId ELSE type
         ]_vars

\* setSelectedEntityId was called with t1 and no entity is selected: t1 was
\* the selected one
C30_Witness ==
    /\ lastCall = Call("setSelectedEntityId", "t1", "none")
    /\ store.selectedEntityId = nullId
    /\ IsObject(store.entities)

\* the sockets that are connecting or open
Live(socks) == {s \in DOMAIN socks : socks[s] \in {"CONNECTING", "OPEN"}}

\* C23: connect prevents multiple connections.  At most one WebSocket of the
\* service is connecting or open at any time, and a connect call made while
\* one is connecting or open creates no socket.
C23_SingleConnection ==
    /\ [](Cardinality(Live(sockets)) <= 1)
    /\ [][(Connect /\ Live(sockets) # {}) => sockets' = sockets]_vars

\* C24: connection status consistency.  isConnected is true exactly when the
\* service holds a socket and that socket is open; after a close event it is
\* false and the reference is null; an event of an earlier socket leaves the
\* reference to, and the status of, a later open socket alone.
C24_ConnectionStatus ==
    /\ [](store.isConnected <=> HoldsOpen(websocket, sockets))
    /\ [][ /\ \A s \in DOMAIN sockets :
                (Close(s) \/ Fail(s)) => (~store'.isConnected /\ websocket' = 0)
           /\ \A s \in DOMAIN sockets :
                ((Close(s) \/ Fail(s)) /\ HoldsOpen(websocket, sockets) /\ websocket # s) =>
                    (websocket' = websocket /\ store'.isConnected)
         ]_vars

\* C25: send transmits the message exactly when the service holds an open
\* socket at the time of the call, on that socket; otherwise the message is
\* dropped with an error logged; nothing is transmitted at any other time,
\* no call ends in an exception, and send leaves the store as it is.
C25_SendGuard ==
    /\ [](\A i \in DOMAIN wire : wire[i].socket \in DOMAIN sockets /\ wire[i].data.wellFormed)
    /\ [](lastCall.kind = "send" => lastCall.arg \in {"sent", "dropped"})
    /\ [][ /\ \A message \in SocketCommands :
                Send(message) =>
                    /\ store' = store
                    /\ IF HoldsOpen(websocket, sockets)
                       THEN /\ wire' = Append(wire, [socket |-> websocket,
                                                     data |-> JSONstringify(message)])
                            /\ lastCall'.arg = "sent"
                       ELSE /\ wire' = wire
                            /\ lastCall'.arg = "dropped"
                            /\ lastCall'.log = "error"
           /\ wire' # wire =>
                (HoldsOpen(websocket, sockets) /\ \E message \in SocketCommands : Send(message))
         ]_vars

\* a command was dropped while the socket was connecting; the socket has
\* opened since and nothing was transmitted; a later one was dropped after
\* the socket closed
C25_Witness ==
    /\ lastCall = Call("send", "dropped", "error")
    /\ wire = <<>>
    /\ sockets = <<"CLOSED">>
    /\ lastTick # NoTick

\* the towers of the latest game tick received
LatestTowers ==
    IF lastTick = NoTick THEN <<>>
    ELSE IF ~IsObject(Get(lastTick, "entities")) THEN <<>>
    ELSE lastTick.entities.towers

\* the upgrade with the id is the next tier of one of the tower's paths
IsNextTier(tower, upgrade_id) ==
    /\ tower.type_id \in UpgradableTowers
    /\ \E u \in AllUpgrades(tower.type_id) :
          u.id = upgrade_id /\ u.tier = TierOf(tower, u.path) + 1

\* the payload of the command transmitted last
LastCommand(w) == w[Len(w)].data.value.payload

\* the panel as rendered from the store
Rendered == UpgradePanel(store, selectedTower(store))

\* C27: the upgrade panel only requests the next tier of an existing tower.
\* The panel shows the tower of the latest snapshot that has the selected id
\* and nothing when there is none; on each path it offers at most the
\* upgrade one tier above the tower's tier on that path; every command
\* transmitted names a tower of the latest snapshot, the selected one, and
\* the next tier of one of its paths.
C27_NextTierOnly ==
    /\ [](Rendered # NoPanel =>
            /\ Rendered.tower.id = store.selectedEntityId
            /\ \E i \in DOMAIN LatestTowers : LatestTowers[i] = Rendered.tower
            /\ \A path \in Paths :
                Rendered.buttons[path].upgrade # NoUpgrade =>
                    /\ Rendered.buttons[path].upgrade.path = path
                    /\ IsNextTier(Rendered.tower, Rendered.buttons[path].upgrade.id))
    /\ []((\A i \in DOMAIN LatestTowers : LatestTowers[i].id # store.selectedEntityId)
            => Rendered = NoPanel)
    /\ [][wire' # wire =>
            /\ Len(wire') = Len(wire) + 1
            /\ LastCommand(wire').tower_id = store.selectedEntityId
            /\ \E i \in DOMAIN LatestTowers :
                  /\ LatestTowers[i].id = LastCommand(wire').tower_id
                  /\ IsNextTier(LatestTowers[i], LastCommand(wire').upgrade_id)
         ]_vars

\* with the Commander of the wave 2 snapshot selected (tiers 2 / 1) the
\* command for commander_a3 was transmitted, after one for commander_b2
C27_Witness ==
    /\ Len(wire) = 2
    /\ wire[1].data.value.payload.upgrade_id = "commander_b2"
    /\ LastCommand(wire).tower_id = "t2"
    /\ LastCommand(wire).upgrade_id = "commander_a3"
    /\ lastCall = Call("send", "sent", "none")
    /\ store.selectedEntityId = "t2"

\* C29: client-side affordability gate.  A button of the panel is enabled
\* exactly when the gold of the latest game state received is at least the
\* cost of the upgrade it offers, and a purchase click, hence a command, is
\* possible only for an upgrade that gold pays for.
C29_AffordabilityGate ==
    /\ [](Rendered # NoPanel =>
            \A path \in Paths :
                Rendered.buttons[path].upgrade # NoUpgrade =>
                    (Rendered.buttons[path].canAfford
                        <=> lastTick.game_state.gold >= Rendered.buttons[path].upgrade.cost))
    /\ [][ /\ \A path \in Paths :
                PurchaseClick(Rendered, path) =>
                    lastTick.game_state.gold >= Rendered.buttons[path].upgrade.cost
           /\ wire' # wire =>
                \E path \in Paths :
                    /\ Rendered.buttons[path].upgrade.id = LastCommand(wire').upgrade_id
                    /\ lastTick.game_state.gold >= Rendered.buttons[path].upgrade.cost
         ]_vars

\* the snapshot shows 110 gold: the button for mortar_a1 (110) is enabled and
\* its command was transmitted, the one for mortar_b1 (120) is disabled
C29_Witness ==
    /\ Rendered # NoPanel
    /\ store.gameState.gold = 110
    /\ Rendered.buttons["a"].upgrade.id = "mortar_a1"
    /\ Rendered.buttons["a"].canAfford
    /\ Rendered.buttons["b"].upgrade.id = "mortar_b1"
    /\ ~Rendered.buttons["b"].canAfford
    /\ wire # <<>>
    /\ LastCommand(wire).upgrade_id = "mortar_a1"
    /\ lastCall = Call("send", "sent", "none")

\* the purchases of a log that belong to one path, in the order of the log
OnPath(all, log, path) ==
    SelectSeq(log, LAMBDA id : (CHOOSE u \in all : u.id = id).path = path)

\* the purchases of a log regrouped: one path's tiers first, then the other's
PathByPath(all, log, first) ==
    OnPath(all, log, first) \o OnPath(all, log, CHOOSE path \in Paths : path # first)

\* the definition of a fresh tower of the type sold the upgrades of the log
DefinitionAfter(type, log) == Replayed(TowerTemplate(type), AllUpgrades(type), log)

\* the tiers from .. to of a path as upgrade ids, in tier order
TiersOf(type, path, from, to) ==
    [i \in 1..(to - from + 1) |->
        Lookup(UpgradeDefinitions(type), UpgradeKey(path, from + i - 1)).id]

\* auras[0].effects.fire_rate_boost.potency
FireRateBoostPotency == <<"auras", "0", "effects", "fire_rate_boost", "potency">>

\* C28: independence of the two upgrade paths.  The definition of a tower
\* that bought some tiers of path a and some of path b, each path in tier
\* order, is the definition it would have had buying the same tiers one path
\* after the other, whichever path first; and the Commander's aura potency
\* of fire_rate_boost is the same with commander_b5 bought before
\* commander_a2, a4, a5 as with it bought after them.
C28_PathIndependence ==
    /\ \A first \in Paths :
          towers["t1"].definition =
             DefinitionAfter(towers["t1"].type_id,
                             PathByPath(AllUpgrades(towers["t1"].type_id), purchaseLog["t1"], first))
    /\ DefinitionAfter("commander",
            TiersOf("commander", "b", 1, 5) \o TiersOf("commander", "a", 1, 5))[FireRateBoostPotency]
       = DefinitionAfter("commander",
            TiersOf("commander", "a", 1, 5) \o TiersOf("commander", "b", 1, 5))[FireRateBoostPotency]

====
